---- MODULE Spec2Model ----
(***************************************************************************)
(* Exam portal backend (exam-portal/backend/uploads/server.js): the        *)
(* Express request pipeline (authMiddleware, facultyOnly, multer, route    *)
(* handlers) over the Mongoose stores User, Material and Chat.             *)
(*                                                                         *)
(* Every request runs in a request context (a slot).  A handler is cut at  *)
(* its awaits on store calls: each action is the synchronous code between  *)
(* two awaits together with the store call it ends on, so the store may    *)
(* change between two actions of one request exactly as it may between two *)
(* awaits of the handler.                                                  *)
(*                                                                         *)
(* Strings the code transforms (emails, names, numbers in text form) are   *)
(* sequences of one-character strings, so that toLowerCase, trim and       *)
(* parseInt are computed.  Time is counted in days.                        *)
(***************************************************************************)
EXTENDS Integers, Sequences, FiniteSets, TLC

VARIABLES
    users,      \* User collection: sequence of documents, _id = position
    materials,  \* Material collection: sequence of documents in insertion order
    chats,      \* Chat collection: sequence of documents in insertion order
    files,      \* names of the files written under uploads/
    nextId,     \* source of fresh Material/Chat _id and createdAt values
    clock,      \* current time, in days
    issued,     \* tokens handed out in responses so far
    reqs,       \* request context of every slot
    started,    \* number of requests received so far
    dbOk,       \* whether store calls currently succeed
    log         \* details written to the server log by console.error

vars == <<users, materials, chats, files, nextId, clock, issued, reqs, started, dbOk, log>>

storeVars == <<users, materials, chats, files, nextId>>

----------------------------------------------------------------------------
(* Bounds of the model *)

MaxRequests == 4

MaxClock == 8

(* Program constants *)

TokenTTL == 7

MaxFileSize == 50

NaN == 0 - 1

Slots == {"A", "B"}

----------------------------------------------------------------------------
(* String helpers: String.prototype.toLowerCase / trim, parseInt *)

LowerChar(c) ==
    CASE c = "A" -> "a" [] c = "B" -> "b" [] c = "C" -> "c" [] c = "D" -> "d"
      [] c = "E" -> "e" [] c = "F" -> "f" [] c = "G" -> "g" [] c = "H" -> "h"
      [] c = "I" -> "i" [] c = "J" -> "j" [] c = "K" -> "k" [] c = "L" -> "l"
      [] c = "M" -> "m" [] c = "N" -> "n" [] c = "O" -> "o" [] c = "P" -> "p"
      [] c = "Q" -> "q" [] c = "R" -> "r" [] c = "S" -> "s" [] c = "T" -> "t"
      [] c = "U" -> "u" [] c = "V" -> "v" [] c = "W" -> "w" [] c = "X" -> "x"
      [] c = "Y" -> "y" [] c = "Z" -> "z"
      [] OTHER -> c

ToLowerCase(str) == [i \in DOMAIN str |-> LowerChar(str[i])]

RECURSIVE TrimStart(_)
TrimStart(str) ==
    IF str # <<>> /\ Head(str) = " " THEN TrimStart(Tail(str)) ELSE str

RECURSIVE TrimEnd(_)
TrimEnd(str) ==
    IF str # <<>> /\ str[Len(str)] = " "
    THEN TrimEnd(SubSeq(str, 1, Len(str) - 1))
    ELSE str

Trim(str) == TrimEnd(TrimStart(str))

Digits == {"0", "1", "2", "3", "4", "5", "6", "7", "8", "9"}

DigitVal(c) ==
    CASE c = "0" -> 0 [] c = "1" -> 1 [] c = "2" -> 2 [] c = "3" -> 3
      [] c = "4" -> 4 [] c = "5" -> 5 [] c = "6" -> 6 [] c = "7" -> 7
      [] c = "8" -> 8 [] c = "9" -> 9

RECURSIVE ParseDigits(_, _)
ParseDigits(str, acc) ==
    IF str = <<>> \/ Head(str) \notin Digits
    THEN acc
    ELSE ParseDigits(Tail(str), 10 * acc + DigitVal(Head(str)))

\* parseInt: skips leading blanks, reads the leading digits, NaN when none
ParseInt(str) ==
    LET s == TrimStart(str)
    IN  IF s = <<>> \/ Head(s) \notin Digits THEN NaN ELSE ParseDigits(s, 0)

\* JavaScript truthiness of a string value (undefined and '' are both falsy),
\* for a string kept as a character sequence and for one kept whole
Truthy(str) == str # <<>>

TruthyWord(w) == w # ""

----------------------------------------------------------------------------
(* Token Service: jsonwebtoken sign / verify with the server secret *)

NoCred == [kind |-> "none"]

Garbage == [kind |-> "garbage"]

\* jwt.sign(claims, secret, {expiresIn: '7d'}) at time now
JwtSign(userId, role, email, now) ==
    [kind |-> "jwt", userId |-> userId, role |-> role, email |-> email,
     iat |-> now, exp |-> now + TokenTTL, sig |-> "server"]

\* a token with the same payload signed with another key
Forge(t) == [t EXCEPT !.sig = "other", !.role = "faculty"]

JwtVerifyNoExpiry(t, now) == t.kind = "jwt" /\ t.sig = "server"

JwtVerifyAnySignature(t, now) == t.kind = "jwt" /\ now < t.exp

\* jwt.verify(token, secret): signature matches and now < exp
JwtVerify(t, now) == t.kind = "jwt" /\ t.sig = "server" /\ now < t.exp

\* the decoded payload attached as req.user
Decoded(t) == [userId |-> t.userId, role |-> t.role, email |-> t.email,
               iat |-> t.iat, exp |-> t.exp]

NoClaims == [userId |-> 0]

----------------------------------------------------------------------------
(* Password hashing: bcrypt.hash / bcrypt.compare *)

BcryptHash(pw) == [bcrypt |-> pw]

\* a comparison that accepts any password
BcryptCompareAny(pw, hash) == TRUE

BcryptCompare(pw, hash) == hash = BcryptHash(pw)

----------------------------------------------------------------------------
(* Request contexts *)

NoDoc == [id |-> 0]

NoRes == [status |-> 0, body |-> [none |-> TRUE]]

IdleReq ==
    [op |-> "none", cred |-> NoCred, body |-> [none |-> TRUE], pc |-> "idle",
     user |-> NoClaims, doc |-> NoDoc, res |-> NoRes,
     reads |-> 0, writes |-> 0, verifiedAt |-> 0 - 1]

Free(s) == reqs[s].pc \in {"idle", "done"}

\* requests take the first free slot: slot B is used only while A is busy
SlotFor(s) == s = "A" \/ ~Free("A")

ProtectedOps == {"me", "upload", "list", "get", "like", "download", "delete",
                 "chat", "history", "dashboard", "stats"}

FacultyOps == {"upload", "delete"}

\* the first stage of each route's middleware chain
FirstStage(op) == IF op \in ProtectedOps THEN "auth" ELSE op

\* an upload route registered without facultyOnly
AfterAuthSkipRole(op) ==
    IF op = "upload" THEN "multer" ELSE IF op \in FacultyOps THEN "role" ELSE op

\* the stage that follows authMiddleware in the route's chain
AfterAuth(op) == IF op \in FacultyOps THEN "role" ELSE op

\* the stage that follows facultyOnly in the route's chain
AfterRole(op) == IF op = "upload" THEN "multer" ELSE op

NewReq(op, cred, body) ==
    [IdleReq EXCEPT !.op = op, !.cred = cred, !.body = body,
                    !.pc = FirstStage(op)]

\* res.status(status).json(body) ends the request
Respond(s, status, body) ==
    reqs' = [reqs EXCEPT ![s].pc = "done",
                         ![s].res = [status |-> status, body |-> body]]

\* the same, counting the store calls the step made
RespondIO(s, status, body, r, w) ==
    reqs' = [reqs EXCEPT ![s].pc = "done",
                         ![s].res = [status |-> status, body |-> body],
                         ![s].reads = @ + r, ![s].writes = @ + w]

\* the error a failing store call throws
StoreError == "store-failure-detail"

\* The outcome classes of the error taxonomy, from status and message
Outcome(res) ==
    CASE res.status \in {200, 201} -> "Success"
      [] res.status = 401 -> "Unauthenticated"
      [] res.status = 403 -> "Forbidden"
      [] res.status = 404 -> "NotFound"
      [] res.status = 500 -> "InternalFailure"
      [] res.status = 400 /\ res.body.error = "Invalid token." -> "InvalidToken"
      [] res.status = 400 /\ res.body.error = "User already exists with this email"
            -> "DuplicateResource"
      [] res.status = 400 /\ res.body.error = "Invalid email or password"
            -> "BadCredentials"
      [] res.status = 400 -> "ValidationError"
      [] OTHER -> "None"

----------------------------------------------------------------------------
(* Credential Store: the User model (schema: name trimmed; email unique,   *)
(* lower-cased, trimmed; role in an enum; defaults) and its queries        *)

NoUser == [id |-> 0]

Roles == {"student", "faculty"}

FindUserByEmailMiss(email) == NoUser

\* User.findOne({ email })
FindUserByEmail(email) ==
    IF \E i \in DOMAIN users : users[i].email = email
    THEN users[CHOOSE i \in DOMAIN users : users[i].email = email]
    ELSE NoUser

\* User.findById(id)
FindUserById(id) ==
    IF id \in DOMAIN users THEN users[id] ELSE NoUser

\* the document User.create builds: schema setters applied to the given fields
UserDoc(name, email, hash, role, department, semester) ==
    [id |-> Len(users) + 1, name |-> Trim(name), email |-> Trim(ToLowerCase(email)),
     password |-> hash, role |-> role, department |-> department,
     semester |-> semester]

\* schema validation on save: required paths, role enum, Number cast
UserValid(doc) ==
    /\ doc.name # <<>>
    /\ doc.email # <<>>
    /\ doc.role \in Roles
    /\ doc.semester # NaN

EmailUniqueNoIndex(doc) == TRUE

\* the unique index on email
EmailUnique(doc) == \A i \in DOMAIN users : users[i].email # doc.email

SummaryLeaky(user) == user

\* the user summary the auth routes put in a response
UserSummary(user) ==
    [id |-> user.id, name |-> user.name, email |-> user.email, role |-> user.role,
     department |-> user.department, semester |-> user.semester]

----------------------------------------------------------------------------
(* Receiving a request *)

Start(s, op, cred, body) ==
    /\ Free(s)
    /\ SlotFor(s)
    /\ started < MaxRequests
    /\ reqs' = [reqs EXCEPT ![s] = NewReq(op, cred, body)]
    /\ started' = started + 1
    /\ UNCHANGED <<storeVars, clock, issued, dbOk, log>>

\* what a client can put in the Authorization header
Creds == {NoCred, Garbage} \cup issued \cup {Forge(t) : t \in issued}

----------------------------------------------------------------------------
(* Access Gate *)

\* authMiddleware
AuthMiddleware(s) ==
    LET r == reqs[s] IN
    /\ r.pc = "auth"
    /\ IF r.cred = NoCred
       THEN Respond(s, 401, [error |-> "Access denied. No token provided."])
       ELSE IF ~JwtVerify(r.cred, clock)
       THEN reqs' = [reqs EXCEPT ![s].pc = "done", ![s].verifiedAt = clock,
                       ![s].res = [status |-> 400, body |-> [error |-> "Invalid token."]]]
       ELSE reqs' = [reqs EXCEPT ![s].user = Decoded(r.cred),
                                 ![s].verifiedAt = clock,
                                 ![s].pc = AfterAuth(r.op)]
    /\ UNCHANGED <<storeVars, clock, issued, started, dbOk, log>>

RoleAllowsAll(claims) == TRUE

RoleAllows(claims) == claims.role = "faculty"

\* facultyOnly
FacultyOnly(s) ==
    LET r == reqs[s] IN
    /\ r.pc = "role"
    /\ IF ~RoleAllows(r.user)
       THEN Respond(s, 403, [error |-> "Access denied. Faculty only."])
       ELSE reqs' = [reqs EXCEPT ![s].pc = AfterRole(r.op)]
    /\ UNCHANGED <<storeVars, clock, issued, started, dbOk, log>>

----------------------------------------------------------------------------
(* POST /api/auth/register *)

DefaultDepartment ==
    <<"C", "o", "m", "p", "u", "t", "e", "r", " ", "S", "c", "i", "e", "n", "c", "e">>

NormalizeEmailNoCase(email) == Trim(email)

\* email.toLowerCase().trim()
NormalizeEmail(email) == Trim(ToLowerCase(email))

\* validation, then User.findOne on the normalised email
RegisterCheck(s) ==
    LET r == reqs[s]
        b == r.body
        email == NormalizeEmail(b.email)
    IN
    /\ r.pc = "register"
    /\ IF ~Truthy(b.name) \/ ~Truthy(b.email) \/ ~TruthyWord(b.password)
          \/ ~TruthyWord(b.role)
       THEN /\ Respond(s, 400, [error |-> "All fields are required"])
            /\ UNCHANGED log
       ELSE IF ~dbOk
       THEN /\ RespondIO(s, 500, [error |-> "Registration failed. Please try again."], 1, 0)
            /\ log' = log \cup {StoreError}
       ELSE IF FindUserByEmail(email) # NoUser
       THEN /\ RespondIO(s, 400, [error |-> "User already exists with this email"], 1, 0)
            /\ UNCHANGED log
       ELSE /\ reqs' = [reqs EXCEPT ![s].pc = "register_create", ![s].reads = @ + 1]
            /\ UNCHANGED log
    /\ UNCHANGED <<storeVars, clock, issued, started, dbOk>>

\* bcrypt.hash, User.create, jwt.sign and the 201 response
RegisterCreate(s) ==
    LET r == reqs[s]
        b == r.body
        doc == UserDoc(b.name, b.email, BcryptHash(b.password), b.role,
                       IF Truthy(b.department) THEN b.department
                       ELSE DefaultDepartment,
                       IF Truthy(b.semester) THEN ParseInt(b.semester) ELSE 1)
        token == JwtSign(doc.id, doc.role, doc.email, clock)
    IN
    /\ r.pc = "register_create"
    /\ IF ~dbOk \/ ~UserValid(doc) \/ ~EmailUnique(doc)
       THEN /\ RespondIO(s, 500, [error |-> "Registration failed. Please try again."], 0, 1)
            /\ log' = log \cup {IF ~dbOk THEN StoreError
                                 ELSE IF ~UserValid(doc) THEN "ValidationError"
                                 ELSE "E11000 duplicate key"}
            /\ UNCHANGED <<users, issued>>
       ELSE /\ users' = Append(users, doc)
            /\ issued' = issued \cup {token}
            /\ RespondIO(s, 201, [message |-> "User registered successfully!",
                                  token |-> token, user |-> UserSummary(doc)], 0, 1)
            /\ UNCHANGED log
    /\ UNCHANGED <<materials, chats, files, nextId, clock, started, dbOk>>

----------------------------------------------------------------------------
(* POST /api/auth/login *)

\* validation, User.findOne, bcrypt.compare, jwt.sign and the response; the
\* user document is immutable, so the awaits after findOne read nothing that
\* can change
Login(s) ==
    LET r == reqs[s]
        b == r.body
        user == FindUserByEmail(NormalizeEmail(b.email))
        token == JwtSign(user.id, user.role, user.email, clock)
    IN
    /\ r.pc = "login"
    /\ IF ~Truthy(b.email) \/ ~TruthyWord(b.password)
       THEN /\ Respond(s, 400, [error |-> "Email and password are required"])
            /\ UNCHANGED <<issued, log>>
       ELSE IF ~dbOk
       THEN /\ RespondIO(s, 500, [error |-> "Server error during login"], 1, 0)
            /\ log' = log \cup {StoreError}
            /\ UNCHANGED issued
       ELSE IF user = NoUser \/ ~BcryptCompare(b.password, user.password)
       THEN /\ RespondIO(s, 400, [error |-> "Invalid email or password"], 1, 0)
            /\ UNCHANGED <<issued, log>>
       ELSE /\ RespondIO(s, 200, [message |-> "Login successful!", token |-> token,
                                  user |-> UserSummary(user)], 1, 0)
            /\ issued' = issued \cup {token}
            /\ UNCHANGED log
    /\ UNCHANGED <<storeVars, clock, started, dbOk>>

----------------------------------------------------------------------------
(* GET /api/auth/me *)

GetSelf(s) ==
    LET r == reqs[s]
        user == FindUserById(r.user.userId)
    IN
    /\ r.pc = "me"
    /\ IF ~dbOk
       THEN RespondIO(s, 500, [error |-> StoreError], 1, 0)
       ELSE IF user = NoUser
       THEN RespondIO(s, 404, [error |-> "User not found"], 1, 0)
       ELSE RespondIO(s, 200, UserSummary(user), 1, 0)
    /\ UNCHANGED <<storeVars, clock, issued, started, dbOk, log>>

----------------------------------------------------------------------------
(* Passage of time *)

Tick ==
    /\ clock < MaxClock
    /\ clock' = clock + 1
    /\ UNCHANGED <<storeVars, issued, reqs, started, dbOk, log>>

----------------------------------------------------------------------------
(* Resource Store: the Material model and its queries.  A document read by *)
(* findById is a local copy; save() sends only the changes made to the     *)
(* copy: an array push goes out as an atomic $push of the pushed element   *)
(* (plus an increment of the version key __v), an array splice as a $set   *)
(* of the whole array conditioned on the version key read, a scalar        *)
(* assignment as a $set of that path.  save() of a document that is no     *)
(* longer in the collection fails (DocumentNotFoundError / VersionError).  *)

Range(seq) == {seq[i] : i \in DOMAIN seq}

MaterialTypes == {"notes", "pyq", "syllabus", "reference"}

BadId == 0 - 1

\* Material.findById(id)
FindMaterial(id) ==
    IF \E i \in DOMAIN materials : materials[i].id = id
    THEN materials[CHOOSE i \in DOMAIN materials : materials[i].id = id]
    ELSE NoDoc

\* the collection with document id replaced by doc
PutMaterial(id, doc) ==
    [i \in DOMAIN materials |-> IF materials[i].id = id THEN doc ELSE materials[i]]

WithoutKeep(seq, id) == seq

\* the collection without the document id
Without(seq, id) == SelectSeq(seq, LAMBDA m : m.id # id)

\* schema validation of Material.create: required paths, Number cast, enum
MaterialValid(doc) ==
    /\ doc.title # <<>>
    /\ doc.subject # <<>>
    /\ doc.department # <<>>
    /\ doc.semester # NaN
    /\ doc.year # NaN
    /\ doc.type \in MaterialTypes

\* Array.prototype.findIndex(likeId => likeId.toString() === userId.toString()),
\* with 0 for JavaScript's -1 (positions count from 1 here)
FindIndex(likes, userId) ==
    IF \E i \in DOMAIN likes : likes[i] = userId
    THEN CHOOSE i \in DOMAIN likes :
            likes[i] = userId /\ \A j \in 1..(i - 1) : likes[j] # userId
    ELSE 0

\* Array.prototype.splice(index, 1)
Splice(likes, i) == SubSeq(likes, 1, i - 1) \o SubSeq(likes, i + 1, Len(likes))

\* lines 345-353: the like handler's change to its local copy of likes
ToggleLikes(likes, userId) ==
    IF FindIndex(likes, userId) > 0
    THEN Splice(likes, FindIndex(likes, userId))
    ELSE Append(likes, userId)

\* what material.save() makes of the stored document after the like handler
\* changed its copy doc
SaveLikes(stored, doc, userId) ==
    IF doc.delta = "push"
    THEN [stored EXCEPT !.likes = Append(@, userId), !.v = @ + 1]
    ELSE [stored EXCEPT !.likes = doc.likes, !.v = @ + 1]

\* a save() that never reports a missing document
SaveLikesMatchesAlways(stored, doc) == TRUE

\* whether that save() finds its document: a $set of the array carries the
\* version key the copy was read with
SaveLikesMatches(stored, doc) ==
    stored # NoDoc /\ (doc.delta = "set" => stored.v = doc.v)

SaveDownloadsKeep(stored, doc) == stored

SaveDownloadsAtomic(stored, doc) == [stored EXCEPT !.downloads = @ + 1]

\* what material.save() makes of the stored document after the download
\* handler assigned downloads on its copy doc
SaveDownloads(stored, doc) == [stored EXCEPT !.downloads = doc.downloads]

----------------------------------------------------------------------------
(* POST /api/materials: upload.single('file') and the handler *)

NoFile == [name |-> "", size |-> 0]

\* multer without limits.fileSize: a file of any size is stored
MulterNoLimit(s) ==
    LET r == reqs[s]
        f == r.body.file
        stored == [name |-> f.name, stamp |-> clock]
    IN
    /\ r.pc = "multer"
    /\ IF f = NoFile
       THEN /\ reqs' = [reqs EXCEPT ![s].pc = "upload"]
            /\ UNCHANGED files
       ELSE /\ reqs' = [reqs EXCEPT ![s].pc = "upload", ![s].doc = stored]
            /\ files' = files \cup {stored}
    /\ UNCHANGED <<users, materials, chats, nextId, clock, issued, started, dbOk, log>>

\* multer: parses the multipart body, refuses a file above limits.fileSize
\* (the error goes to Express' default error handler), stores any other file
\* under uploads/ as <timestamp>-<original name>
Multer(s) ==
    LET r == reqs[s]
        f == r.body.file
        stored == [name |-> f.name, stamp |-> clock]
    IN
    /\ r.pc = "multer"
    /\ IF f # NoFile /\ f.size > MaxFileSize
       THEN /\ Respond(s, 500, [html |-> "MulterError: File too large"])
            /\ UNCHANGED files
       ELSE IF f = NoFile
       THEN /\ reqs' = [reqs EXCEPT ![s].pc = "upload"]
            /\ UNCHANGED files
       ELSE /\ reqs' = [reqs EXCEPT ![s].pc = "upload", ![s].doc = stored]
            /\ files' = files \cup {stored}
    /\ UNCHANGED <<users, materials, chats, nextId, clock, issued, started, dbOk, log>>

\* the handler up to await User.findById
UploadFindUser(s) ==
    LET r == reqs[s]
        user == FindUserById(r.user.userId)
    IN
    /\ r.pc = "upload"
    /\ IF r.doc = NoDoc
       THEN /\ Respond(s, 400, [error |-> "No file uploaded"])
            /\ UNCHANGED log
       ELSE IF ~dbOk
       THEN /\ RespondIO(s, 500, [error |-> StoreError], 1, 0)
            /\ log' = log \cup {StoreError}
       ELSE /\ reqs' = [reqs EXCEPT ![s].pc = "upload_create", ![s].reads = @ + 1,
                           ![s].doc = [file |-> r.doc,
                                       uploader |-> IF user = NoUser
                                                    THEN <<"F", "a", "c", "u", "l", "t", "y">>
                                                    ELSE user.name]]
            /\ UNCHANGED log
    /\ UNCHANGED <<storeVars, clock, issued, started, dbOk>>

\* Material.create and the 201 response
UploadCreate(s) ==
    LET r == reqs[s]
        b == r.body
        doc == [id |-> nextId, title |-> Trim(b.title),
                description |-> b.description, subject |-> b.subject,
                department |-> b.department, semester |-> ParseInt(b.semester),
                type |-> b.type,
                year |-> IF Truthy(b.year) THEN ParseInt(b.year) ELSE 0,
                fileUrl |-> r.doc.file, fileName |-> r.doc.file.name,
                uploadedBy |-> r.user.userId, uploadedByName |-> r.doc.uploader,
                likes |-> <<>>, downloads |-> 0, v |-> 0, createdAt |-> nextId]
    IN
    /\ r.pc = "upload_create"
    /\ IF ~dbOk \/ ~MaterialValid(doc)
       THEN /\ RespondIO(s, 500, [error |-> IF ~dbOk THEN StoreError
                                            ELSE "Material validation failed"], 0, 1)
            /\ log' = log \cup {IF ~dbOk THEN StoreError ELSE "Material validation failed"}
            /\ UNCHANGED <<materials, nextId>>
       ELSE /\ materials' = Append(materials, doc)
            /\ nextId' = nextId + 1
            /\ RespondIO(s, 201, [message |-> "Material uploaded successfully!",
                                  material |-> doc], 0, 1)
            /\ UNCHANGED log
    /\ UNCHANGED <<users, chats, files, clock, issued, started, dbOk>>

----------------------------------------------------------------------------
(* GET /api/materials/:id *)

GetMaterial(s) ==
    LET r == reqs[s]
        material == FindMaterial(r.body.id)
    IN
    /\ r.pc = "get"
    /\ IF ~dbOk \/ r.body.id = BadId
       THEN RespondIO(s, 500, [error |-> IF ~dbOk THEN StoreError
                                        ELSE "Cast to ObjectId failed"], 1, 0)
       ELSE IF material = NoDoc
       THEN RespondIO(s, 404, [error |-> "Material not found"], 1, 0)
       ELSE RespondIO(s, 200, material, 1, 0)
    /\ UNCHANGED <<storeVars, clock, issued, started, dbOk, log>>

----------------------------------------------------------------------------
(* POST /api/materials/:id/like *)

\* findById, then the change to the local copy (lines 338-353)
LikeFind(s) ==
    LET r == reqs[s]
        material == FindMaterial(r.body.id)
        u == r.user.userId
    IN
    /\ r.pc = "like"
    /\ IF ~dbOk \/ r.body.id = BadId
       THEN RespondIO(s, 500, [error |-> IF ~dbOk THEN StoreError
                                        ELSE "Cast to ObjectId failed"], 1, 0)
       ELSE IF material = NoDoc
       THEN RespondIO(s, 404, [error |-> "Material not found"], 1, 0)
       ELSE reqs' = [reqs EXCEPT
                ![s].pc = "like_save", ![s].reads = @ + 1,
                ![s].doc = [id |-> material.id, v |-> material.v,
                            read |-> material.likes,
                            likes |-> ToggleLikes(material.likes, u),
                            delta |-> IF FindIndex(material.likes, u) > 0
                                      THEN "set" ELSE "push"]]
    /\ UNCHANGED <<storeVars, clock, issued, started, dbOk, log>>

\* material.save() and the response, built from the local copy (lines 355-360)
LikeSave(s) ==
    LET r == reqs[s]
        stored == FindMaterial(r.doc.id)
        u == r.user.userId
    IN
    /\ r.pc = "like_save"
    /\ IF ~dbOk \/ ~SaveLikesMatches(stored, r.doc)
       THEN /\ RespondIO(s, 500, [error |-> IF ~dbOk THEN StoreError
                                            ELSE "No matching document found"], 0, 1)
            /\ UNCHANGED materials
       ELSE /\ materials' = PutMaterial(r.doc.id, SaveLikes(stored, r.doc, u))
            /\ RespondIO(s, 200, [message |-> "Like updated",
                                  likes |-> Len(r.doc.likes),
                                  isLiked |-> u \in Range(r.doc.likes)], 0, 1)
    /\ UNCHANGED <<users, chats, files, nextId, clock, issued, started, dbOk, log>>

----------------------------------------------------------------------------
(* POST /api/materials/:id/download *)

\* findById, then downloads = (downloads || 0) + 1 on the local copy
DownloadFind(s) ==
    LET r == reqs[s]
        material == FindMaterial(r.body.id)
    IN
    /\ r.pc = "download"
    /\ IF ~dbOk \/ r.body.id = BadId
       THEN RespondIO(s, 500, [error |-> IF ~dbOk THEN StoreError
                                        ELSE "Cast to ObjectId failed"], 1, 0)
       ELSE IF material = NoDoc
       THEN RespondIO(s, 404, [error |-> "Material not found"], 1, 0)
       ELSE reqs' = [reqs EXCEPT
                ![s].pc = "download_save", ![s].reads = @ + 1,
                ![s].doc = [id |-> material.id, read |-> material.downloads,
                            downloads |-> material.downloads + 1]]
    /\ UNCHANGED <<storeVars, clock, issued, started, dbOk, log>>

\* material.save() and the response
DownloadSave(s) ==
    LET r == reqs[s]
        stored == FindMaterial(r.doc.id)
    IN
    /\ r.pc = "download_save"
    /\ IF ~dbOk \/ stored = NoDoc
       THEN /\ RespondIO(s, 500, [error |-> IF ~dbOk THEN StoreError
                                            ELSE "No document found for query"], 0, 1)
            /\ UNCHANGED materials
       ELSE /\ materials' = PutMaterial(r.doc.id, SaveDownloads(stored, r.doc))
            /\ RespondIO(s, 200, [message |-> "Download count updated",
                                  downloads |-> r.doc.downloads], 0, 1)
    /\ UNCHANGED <<users, chats, files, nextId, clock, issued, started, dbOk, log>>

----------------------------------------------------------------------------
(* DELETE /api/materials/:id *)

\* a delete route that lets only the uploader remove a material
DeleteFindOwnerOnly(s) ==
    LET r == reqs[s]
        material == FindMaterial(r.body.id)
    IN
    /\ r.pc = "delete"
    /\ IF ~dbOk \/ r.body.id = BadId
       THEN RespondIO(s, 500, [error |-> IF ~dbOk THEN StoreError
                                        ELSE "Cast to ObjectId failed"], 1, 0)
       ELSE IF material = NoDoc
       THEN RespondIO(s, 404, [error |-> "Material not found"], 1, 0)
       ELSE IF material.uploadedBy # r.user.userId
       THEN RespondIO(s, 403, [error |-> "Not the owner"], 1, 0)
       ELSE reqs' = [reqs EXCEPT ![s].pc = "delete_remove", ![s].reads = @ + 1,
                                 ![s].doc = [id |-> material.id]]
    /\ UNCHANGED <<storeVars, clock, issued, started, dbOk, log>>

\* findById
DeleteFind(s) ==
    LET r == reqs[s]
        material == FindMaterial(r.body.id)
    IN
    /\ r.pc = "delete"
    /\ IF ~dbOk \/ r.body.id = BadId
       THEN RespondIO(s, 500, [error |-> IF ~dbOk THEN StoreError
                                        ELSE "Cast to ObjectId failed"], 1, 0)
       ELSE IF material = NoDoc
       THEN RespondIO(s, 404, [error |-> "Material not found"], 1, 0)
       ELSE reqs' = [reqs EXCEPT ![s].pc = "delete_remove", ![s].reads = @ + 1,
                                 ![s].doc = [id |-> material.id]]
    /\ UNCHANGED <<storeVars, clock, issued, started, dbOk, log>>

\* findByIdAndDelete and the response
DeleteRemove(s) ==
    LET r == reqs[s] IN
    /\ r.pc = "delete_remove"
    /\ IF ~dbOk
       THEN /\ RespondIO(s, 500, [error |-> StoreError], 0, 1)
            /\ UNCHANGED materials
       ELSE /\ materials' = Without(materials, r.doc.id)
            /\ RespondIO(s, 200, [message |-> "Material deleted successfully"], 0, 1)
    /\ UNCHANGED <<users, chats, files, nextId, clock, issued, started, dbOk, log>>

----------------------------------------------------------------------------
(* GET /api/materials: the query built from the filters, sort, skip, limit *)

\* String.prototype.includes, on character sequences
Includes(hay, needle) ==
    \E i \in 0..(Len(hay) - Len(needle)) : SubSeq(hay, i + 1, i + Len(needle)) = needle

\* one character of a regular expression against one character of the value,
\* case-insensitively: '.' stands for any character, a letter, digit or
\* blank for itself
RegexCharMatches(p, c) == p = "." \/ LowerChar(p) = LowerChar(c)

\* whether the store accepts the pattern: an unclosed '(' is a regular
\* expression it cannot compile
RegexValid(pattern) ==
    \A i \in DOMAIN pattern :
        pattern[i] = "(" => \E j \in (i + 1)..Len(pattern) : pattern[j] = ")"

\* { $regex: pattern, $options: 'i' }: the pattern, taken as a regular
\* expression of letters, digits, blanks and '.', matches somewhere in value
RegexMatchI(value, pattern) ==
    \E i \in 0..(Len(value) - Len(pattern)) :
        \A k \in 1..Len(pattern) : RegexCharMatches(pattern[k], value[i + k])

\* whether material m satisfies the query object built in lines 269-289
MatchesQuery(m, q) ==
    /\ Truthy(q.department) => m.department = q.department
    /\ Truthy(q.semester) => m.semester = ParseInt(q.semester)
    /\ TruthyWord(q.type) => m.type = q.type
    /\ Truthy(q.subject) => RegexMatchI(m.subject, q.subject)
    /\ Truthy(q.search) =>
          \/ RegexMatchI(m.title, q.search)
          \/ RegexMatchI(m.description, q.search)
          \/ RegexMatchI(m.subject, q.search)

\* the documents of seq that satisfy query q, in seq's order
SelectSeq2(seq, q) == SelectSeq(seq, LAMBDA m : MatchesQuery(m, q))

SortNone(seq) == seq

\* .sort({ createdAt: -1 }): every document goes to the position that the
\* number of documents created after it gives
SortByCreatedDesc(seq) ==
    LET place == [i \in DOMAIN seq |->
                    1 + Cardinality({j \in DOMAIN seq :
                            \/ seq[j].createdAt > seq[i].createdAt
                            \/ seq[j].createdAt = seq[i].createdAt /\ j < i})]
    IN  [k \in DOMAIN seq |-> seq[CHOOSE i \in DOMAIN seq : place[i] = k]]

DefaultLimit == 100

\* parseInt(x) || dflt: NaN and 0 are falsy
ParseIntOr(str, dflt) ==
    IF ParseInt(str) = NaN \/ ParseInt(str) = 0 THEN dflt ELSE ParseInt(str)

PageNoSkip(seq, pageNum, limitNum) ==
    SubSeq(seq, 1, IF limitNum < Len(seq) THEN limitNum ELSE Len(seq))

\* .limit(limitNum).skip(skip) on an ordered result
Page(seq, pageNum, limitNum) ==
    SubSeq(seq, (pageNum - 1) * limitNum + 1,
           IF pageNum * limitNum < Len(seq) THEN pageNum * limitNum ELSE Len(seq))

\* the error Material.find(query) throws for the query built from q, "" when
\* it runs: NaN does not cast to the Number path semester, and the store
\* refuses a regular expression it cannot compile
QueryError(q) ==
    IF Truthy(q.semester) /\ ParseInt(q.semester) = NaN THEN "Cast to Number failed"
    ELSE IF (Truthy(q.subject) /\ ~RegexValid(q.subject))
            \/ (Truthy(q.search) /\ ~RegexValid(q.search))
    THEN "Regular expression is invalid"
    ELSE ""

ListMaterials(s) ==
    LET r == reqs[s]
        q == r.body
        found == SortByCreatedDesc(SelectSeq2(materials, q))
    IN
    /\ r.pc = "list"
    /\ IF ~dbOk \/ QueryError(q) # ""
       THEN /\ RespondIO(s, 500, [error |-> IF ~dbOk THEN StoreError
                                            ELSE QueryError(q)], 1, 0)
            /\ log' = log \cup {IF ~dbOk THEN StoreError ELSE QueryError(q)}
       ELSE /\ RespondIO(s, 200,
                         [items |-> Page(found, ParseIntOr(q.page, 1),
                                         ParseIntOr(q.limit, DefaultLimit))], 1, 0)
            /\ UNCHANGED log
    /\ UNCHANGED <<storeVars, clock, issued, started, dbOk>>

----------------------------------------------------------------------------
(* POST /api/chat and GET /api/chat/history *)

\* the keyword groups in the order the handler tests them, each with its
\* canned response (the emoji and line breaks of the texts left out)
KeywordGroups ==
    << [keywords |-> {<<"p", "y", "q">>, <<"p", "r", "e", "v", "i", "o", "u", "s", " ", "y", "e", "a", "r">>, <<"q", "u", "e", "s", "t", "i", "o", "n", " ", "p", "a", "p", "e", "r">>},
        response |-> "You can find previous year question papers in the Materials section. Filter by \"PYQ\" type to see all available papers. Would you like me to help you find papers for a specific subject?"],
       [keywords |-> {<<"n", "o", "t", "e", "s">>, <<"s", "t", "u", "d", "y", " ", "m", "a", "t", "e", "r", "i", "a", "l">>},
        response |-> "Study notes are available in the Materials section. You can filter by subject, semester, and department to find relevant notes for your courses. Just click on Materials in the navigation menu!"],
       [keywords |-> {<<"s", "y", "l", "l", "a", "b", "u", "s">>},
        response |-> "Syllabus documents are available in the Materials section. Filter by \"Syllabus\" type to view the curriculum for different courses. This will help you plan your studies better!"],
       [keywords |-> {<<"e", "x", "a", "m">>, <<"p", "r", "e", "p", "a", "r", "a", "t", "i", "o", "n">>},
        response |-> "I can help you with exam preparation! We have notes, PYQs, and reference materials. What subject are you preparing for? I can guide you to the right materials."],
       [keywords |-> {<<"d", "o", "w", "n", "l", "o", "a", "d">>, <<"h", "o", "w", " ", "t", "o", " ", "d", "o", "w", "n", "l", "o", "a", "d">>},
        response |-> "To download materials: 1) Go to the Materials page, 2) Find the document you need using filters or search, 3) Click the green \"Download\" button. Make sure you're logged in!"],
       [keywords |-> {<<"u", "p", "l", "o", "a", "d">>},
        response |-> "Only faculty members can upload materials. If you're a faculty member, use the Upload button in the navigation menu to share notes, PYQs, or other study materials with students."],
       [keywords |-> {<<"h", "e", "l", "l", "o">>, <<"h", "i">>, <<"h", "e", "y">>},
        response |-> "Hello! I'm your AI study assistant. I can help you find study materials, PYQs, and answer questions about using the portal. What would you like to know?"],
       [keywords |-> {<<"t", "h", "a", "n", "k">>},
        response |-> "You're welcome! Feel free to ask if you need any other help with your studies or using the portal."] >>

MenuResponse == "I'm here to help with your academic queries! You can ask me about: Finding study materials and notes; Previous year question papers (PYQs); Exam preparation tips; How to download or upload materials; Using the portal features. What would you like to know?"

RECURSIVE FirstMatch(_, _)
\* the if / else-if chain of lines 417-435 over the lower-cased message
FirstMatch(lowerMessage, groups) ==
    IF groups = <<>> THEN MenuResponse
    ELSE IF \E k \in Head(groups).keywords : Includes(lowerMessage, k)
    THEN Head(groups).response
    ELSE FirstMatch(lowerMessage, Tail(groups))

ChatResponseCaseSensitive(message) == FirstMatch(message, KeywordGroups)

\* const lowerMessage = message.toLowerCase() and the chain over it
ChatResponse(message) == FirstMatch(ToLowerCase(message), KeywordGroups)

ChatHandlerNoSave(s) ==
    /\ reqs[s].pc = "chat"
    /\ Respond(s, 200, [response |-> ChatResponse(reqs[s].body.message)])
    /\ UNCHANGED <<storeVars, clock, issued, started, dbOk, log>>

\* validation, the response, Chat.create
ChatHandler(s) ==
    LET r == reqs[s]
        response == ChatResponse(r.body.message)
        entry == [id |-> nextId, userId |-> r.user.userId, message |-> r.body.message,
                  response |-> response, createdAt |-> nextId]
    IN
    /\ r.pc = "chat"
    /\ IF ~Truthy(r.body.message)
       THEN /\ Respond(s, 400, [error |-> "Message is required"])
            /\ UNCHANGED <<chats, nextId, log>>
       ELSE IF ~dbOk
       THEN /\ RespondIO(s, 500, [error |-> StoreError], 0, 1)
            /\ log' = log \cup {StoreError}
            /\ UNCHANGED <<chats, nextId>>
       ELSE /\ chats' = Append(chats, entry)
            /\ nextId' = nextId + 1
            /\ RespondIO(s, 200, [response |-> response], 0, 1)
            /\ UNCHANGED log
    /\ UNCHANGED <<users, materials, files, clock, issued, started, dbOk>>

HistoryLimit == 50

\* a find without the userId filter
OfUserAny(seq, userId) == seq

\* Chat.find({ userId })
OfUser(seq, userId) == SelectSeq(seq, LAMBDA c : c.userId = userId)

ChatHistory(s) ==
    LET r == reqs[s]
        found == SortByCreatedDesc(OfUser(chats, r.user.userId))
    IN
    /\ r.pc = "history"
    /\ IF ~dbOk
       THEN RespondIO(s, 500, [error |-> StoreError], 1, 0)
       ELSE RespondIO(s, 200, [items |-> Page(found, 1, HistoryLimit)], 1, 0)
    /\ UNCHANGED <<storeVars, clock, issued, started, dbOk, log>>

----------------------------------------------------------------------------
(* GET /api/dashboard and GET /api/stats *)

RECURSIVE SumDownloads(_)
\* materials.reduce((sum, m) => sum + (m.downloads || 0), 0)
SumDownloads(seq) ==
    IF seq = <<>> THEN 0 ELSE Head(seq).downloads + SumDownloads(Tail(seq))

CountUsersAll(role) == Len(users)

\* User.countDocuments({ role })
CountUsers(role) == Cardinality({i \in DOMAIN users : users[i].role = role})

RecentCount == 5

\* materials.slice(0, 5).map(...) over the result of Material.find()
RecentMaterials(seq) ==
    [i \in 1..(IF Len(seq) < RecentCount THEN Len(seq) ELSE RecentCount) |->
        [id |-> seq[i].id, title |-> seq[i].title, subject |-> seq[i].subject,
         type |-> seq[i].type, createdAt |-> seq[i].createdAt]]

\* a store call of an aggregate route that failed: the catch block
AggregateFails(s, logged) ==
    /\ RespondIO(s, 500, [error |-> StoreError], 1, 0)
    /\ log' = IF logged THEN log \cup {StoreError} ELSE log

\* Material.find().lean() and the sums over its result
DashboardMaterials(s) ==
    LET r == reqs[s] IN
    /\ r.pc = "dashboard"
    /\ IF ~dbOk
       THEN AggregateFails(s, TRUE)
       ELSE /\ reqs' = [reqs EXCEPT
                    ![s].pc = "dashboard_students", ![s].reads = @ + 1,
                    ![s].doc = [totalMaterials |-> Len(materials),
                                totalPYQs |-> Len(SelectSeq(materials,
                                                  LAMBDA m : m.type = "pyq")),
                                totalDownloads |-> SumDownloads(materials),
                                recentMaterials |-> RecentMaterials(materials)]]
            /\ UNCHANGED log
    /\ UNCHANGED <<storeVars, clock, issued, started, dbOk>>

\* User.countDocuments({ role: 'student' })
DashboardStudents(s) ==
    LET r == reqs[s] IN
    /\ r.pc = "dashboard_students"
    /\ IF ~dbOk
       THEN AggregateFails(s, TRUE)
       ELSE /\ reqs' = [reqs EXCEPT
                    ![s].pc = "dashboard_faculty", ![s].reads = @ + 1,
                    ![s].doc = [f \in DOMAIN r.doc \cup {"totalStudents"} |->
                                  IF f = "totalStudents" THEN CountUsers("student")
                                  ELSE r.doc[f]]]
            /\ UNCHANGED log
    /\ UNCHANGED <<storeVars, clock, issued, started, dbOk>>

\* User.countDocuments({ role: 'faculty' }) and the response
DashboardFaculty(s) ==
    LET r == reqs[s] IN
    /\ r.pc = "dashboard_faculty"
    /\ IF ~dbOk
       THEN AggregateFails(s, TRUE)
       ELSE /\ RespondIO(s, 200,
                  [stats |-> [totalMaterials |-> r.doc.totalMaterials,
                              totalPYQs |-> r.doc.totalPYQs,
                              totalDownloads |-> r.doc.totalDownloads,
                              totalStudents |-> r.doc.totalStudents,
                              totalFaculty |-> CountUsers("faculty")],
                   recentMaterials |-> r.doc.recentMaterials], 1, 0)
            /\ UNCHANGED log
    /\ UNCHANGED <<storeVars, clock, issued, started, dbOk>>

\* Material.countDocuments()
StatsMaterials(s) ==
    LET r == reqs[s] IN
    /\ r.pc = "stats"
    /\ IF ~dbOk
       THEN AggregateFails(s, FALSE)
       ELSE /\ reqs' = [reqs EXCEPT ![s].pc = "stats_students", ![s].reads = @ + 1,
                                   ![s].doc = [totalMaterials |-> Len(materials)]]
            /\ UNCHANGED log
    /\ UNCHANGED <<storeVars, clock, issued, started, dbOk>>

\* User.countDocuments({ role: 'student' })
StatsStudents(s) ==
    LET r == reqs[s] IN
    /\ r.pc = "stats_students"
    /\ IF ~dbOk
       THEN AggregateFails(s, FALSE)
       ELSE /\ reqs' = [reqs EXCEPT ![s].pc = "stats_faculty", ![s].reads = @ + 1,
                                   ![s].doc = [totalMaterials |-> r.doc.totalMaterials,
                                               totalStudents |-> CountUsers("student")]]
            /\ UNCHANGED log
    /\ UNCHANGED <<storeVars, clock, issued, started, dbOk>>

\* User.countDocuments({ role: 'faculty' })
StatsFaculty(s) ==
    LET r == reqs[s] IN
    /\ r.pc = "stats_faculty"
    /\ IF ~dbOk
       THEN AggregateFails(s, FALSE)
       ELSE /\ reqs' = [reqs EXCEPT ![s].pc = "stats_downloads", ![s].reads = @ + 1,
                                   ![s].doc = [totalMaterials |-> r.doc.totalMaterials,
                                               totalStudents |-> r.doc.totalStudents,
                                               totalFaculty |-> CountUsers("faculty")]]
            /\ UNCHANGED log
    /\ UNCHANGED <<storeVars, clock, issued, started, dbOk>>

\* Material.find().lean(), the sum of downloads and the response
StatsDownloads(s) ==
    LET r == reqs[s] IN
    /\ r.pc = "stats_downloads"
    /\ IF ~dbOk
       THEN AggregateFails(s, FALSE)
       ELSE /\ RespondIO(s, 200,
                  [totalMaterials |-> r.doc.totalMaterials,
                   totalStudents |-> r.doc.totalStudents,
                   totalFaculty |-> r.doc.totalFaculty,
                   totalDownloads |-> SumDownloads(materials)], 1, 0)
            /\ UNCHANGED log
    /\ UNCHANGED <<storeVars, clock, issued, started, dbOk>>

----------------------------------------------------------------------------
(* Request bodies of the auth routes *)

NoBody == [none |-> TRUE]

Absent == <<>>

RegisterBody(name, email, password, role, department, semester) ==
    [name |-> name, email |-> email, password |-> password, role |-> role,
     department |-> department, semester |-> semester]

RegisterBodies ==
    { RegisterBody(<<"f">>, <<"a">>, "pw1", "faculty", Absent, Absent),
      RegisterBody(<<"s", " ">>, <<" ", "A">>, "pw2", "student", <<"C", "S">>, <<"3">>),
      RegisterBody(<<"t">>, <<"b">>, "pw1", "student", Absent, Absent),
      RegisterBody(<<"t">>, <<"a">>, "", "student", Absent, Absent),
      RegisterBody(<<"t">>, <<"B">>, "pw2", "admin", Absent, Absent) }

LoginBodies ==
    { [email |-> <<"a">>, password |-> "pw1"],
      [email |-> <<" ", "A">>, password |-> "pw2"],
      [email |-> <<"b">>, password |-> "pw1"],
      [email |-> <<"A", " ">>, password |-> ""] }

----------------------------------------------------------------------------
(* The credential side of the system: registration, login, identity lookup *)

InitAuth ==
    /\ users = <<>>
    /\ materials = <<>>
    /\ chats = <<>>
    /\ files = {}
    /\ nextId = 1
    /\ clock = 0
    /\ issued = {}
    /\ reqs = [s \in Slots |-> IdleReq]
    /\ started = 0
    /\ dbOk = TRUE
    /\ log = {}

\* a client sends a request into one of the request contexts S
ReceiveRegister(S) == \E s \in S, b \in RegisterBodies : Start(s, "register", NoCred, b)

ReceiveLogin(S) == \E s \in S, b \in LoginBodies : Start(s, "login", NoCred, b)

ReceiveGetSelf(S) == \E s \in S, c \in Creds : Start(s, "me", c, NoBody)

\* concurrent requests, no passage of time
NextAuth ==
    \/ ReceiveRegister(Slots)
    \/ ReceiveLogin(Slots)
    \/ ReceiveGetSelf(Slots)
    \/ \E s \in Slots : AuthMiddleware(s)
    \/ \E s \in Slots : RegisterCheck(s)
    \/ \E s \in Slots : RegisterCreate(s)
    \/ \E s \in Slots : Login(s)
    \/ \E s \in Slots : GetSelf(s)

SpecAuth == InitAuth /\ [][NextAuth]_vars

MaxTokenRequests == 3

\* one request at a time, with the clock running
NextToken ==
    \/ started < MaxTokenRequests /\ ReceiveRegister({"A"})
    \/ started < MaxTokenRequests /\ ReceiveLogin({"A"})
    \/ started < MaxTokenRequests /\ ReceiveGetSelf({"A"})
    \/ \E s \in Slots : AuthMiddleware(s)
    \/ \E s \in Slots : RegisterCheck(s)
    \/ \E s \in Slots : RegisterCreate(s)
    \/ \E s \in Slots : Login(s)
    \/ \E s \in Slots : GetSelf(s)
    \/ Tick

SpecToken == InitAuth /\ [][NextToken]_vars

----------------------------------------------------------------------------
(* The resource side of the system: upload, like, download, delete, by a   *)
(* faculty user and a student who registered and logged in before          *)

UploadBody(title, description, subject, department, semester, type, year, file) ==
    [title |-> title, description |-> description, subject |-> subject,
     department |-> department, semester |-> semester, type |-> type,
     year |-> year, file |-> file]

SmallFile == [name |-> "calc.pdf", size |-> 1]

UploadBodies ==
    { UploadBody(<<"C", "a">>, Absent, <<"M">>, <<"C", "S">>, <<"2">>, "notes",
                 Absent, SmallFile),
      UploadBody(<<"C", "a">>, Absent, <<"M">>, <<"C", "S">>, <<"2">>, "notes",
                 Absent, NoFile) }

Faculty ==
    [id |-> 1, name |-> <<"f">>, email |-> <<"a">>, password |-> BcryptHash("pw1"),
     role |-> "faculty", department |-> DefaultDepartment, semester |-> 1]

Student ==
    [id |-> 2, name |-> <<"s">>, email |-> <<"b">>, password |-> BcryptHash("pw2"),
     role |-> "student", department |-> <<"C", "S">>, semester |-> 3]

FacultyToken == JwtSign(1, "faculty", <<"a">>, 0)

StudentToken == JwtSign(2, "student", <<"b">>, 0)

MaterialIds == {1, 2}

InitMat ==
    /\ users = <<Faculty, Student>>
    /\ materials = <<>>
    /\ chats = <<>>
    /\ files = {}
    /\ nextId = 1
    /\ clock = 0
    /\ issued = {FacultyToken, StudentToken}
    /\ reqs = [s \in Slots |-> IdleReq]
    /\ started = 0
    /\ dbOk = TRUE
    /\ log = {}

ReceiveUpload(S, C) ==
    \E s \in S, c \in C, b \in UploadBodies : Start(s, "upload", c, b)

\* a request on one material: op is get, like, download or delete
ReceiveOnMaterial(S, C, op) ==
    \E s \in S, c \in C, id \in MaterialIds : Start(s, op, c, [id |-> id])

NextMat ==
    \/ ReceiveUpload(Slots, issued)
    \/ ReceiveOnMaterial(Slots, issued, "like")
    \/ ReceiveOnMaterial(Slots, issued, "download")
    \/ ReceiveOnMaterial(Slots, issued, "delete")
    \/ \E s \in Slots : AuthMiddleware(s)
    \/ \E s \in Slots : FacultyOnly(s)
    \/ \E s \in Slots : Multer(s)
    \/ \E s \in Slots : UploadFindUser(s)
    \/ \E s \in Slots : UploadCreate(s)
    \/ \E s \in Slots : LikeFind(s)
    \/ \E s \in Slots : LikeSave(s)
    \/ \E s \in Slots : DownloadFind(s)
    \/ \E s \in Slots : DownloadSave(s)
    \/ \E s \in Slots : DeleteFind(s)
    \/ \E s \in Slots : DeleteRemove(s)

SpecMat == InitMat /\ [][NextMat]_vars

----------------------------------------------------------------------------
(* The Access Gate in front of every protected route: one request at a     *)
(* time, with every kind of credential, a week after the faculty user      *)
(* first logged in                                                         *)

ListQuery(department, semester, type, subject, search, limit, page) ==
    [department |-> department, semester |-> semester, type |-> type,
     subject |-> subject, search |-> search, limit |-> limit, page |-> page]

ListQueries ==
    { ListQuery(Absent, Absent, "", Absent, Absent, Absent, Absent),
      ListQuery(<<"C", "S">>, <<"2">>, "", Absent, <<"c", "A">>, <<"1">>, <<"1">>) }

ChatBodies ==
    { [message |-> <<"P", "Y", "Q">>], [message |-> Absent] }

ExpiredFacultyToken == JwtSign(1, "faculty", <<"a">>, 0)

InitGate ==
    /\ users = <<Faculty, Student>>
    /\ materials = <<>>
    /\ chats = <<>>
    /\ files = {}
    /\ nextId = 1
    /\ clock = TokenTTL
    /\ issued = {ExpiredFacultyToken, JwtSign(1, "faculty", <<"a">>, TokenTTL),
                 JwtSign(2, "student", <<"b">>, TokenTTL)}
    /\ reqs = [s \in Slots |-> IdleReq]
    /\ started = 0
    /\ dbOk = TRUE
    /\ log = {}

ReceiveList(S, C) == \E s \in S, c \in C, q \in ListQueries : Start(s, "list", c, q)

ReceiveChat(S, C) == \E s \in S, c \in C, b \in ChatBodies : Start(s, "chat", c, b)

\* a request without parameters: op is me, history, dashboard or stats
ReceivePlain(S, C, op) == \E s \in S, c \in C : Start(s, op, c, NoBody)

NextGate ==
    \/ ReceivePlain({"A"}, Creds, "me")
    \/ ReceiveList({"A"}, Creds)
    \/ ReceiveUpload({"A"}, Creds)
    \/ ReceiveOnMaterial({"A"}, Creds, "get")
    \/ ReceiveOnMaterial({"A"}, Creds, "like")
    \/ ReceiveOnMaterial({"A"}, Creds, "download")
    \/ ReceiveOnMaterial({"A"}, Creds, "delete")
    \/ ReceiveChat({"A"}, Creds)
    \/ ReceivePlain({"A"}, Creds, "history")
    \/ ReceivePlain({"A"}, Creds, "dashboard")
    \/ ReceivePlain({"A"}, Creds, "stats")
    \/ \E s \in Slots : AuthMiddleware(s)
    \/ \E s \in Slots : FacultyOnly(s)
    \/ \E s \in Slots : Multer(s)
    \/ \E s \in Slots : UploadFindUser(s)
    \/ \E s \in Slots : UploadCreate(s)
    \/ \E s \in Slots : GetSelf(s)
    \/ \E s \in Slots : ListMaterials(s)
    \/ \E s \in Slots : GetMaterial(s)
    \/ \E s \in Slots : LikeFind(s)
    \/ \E s \in Slots : LikeSave(s)
    \/ \E s \in Slots : DownloadFind(s)
    \/ \E s \in Slots : DownloadSave(s)
    \/ \E s \in Slots : DeleteFind(s)
    \/ \E s \in Slots : DeleteRemove(s)
    \/ \E s \in Slots : ChatHandler(s)
    \/ \E s \in Slots : ChatHistory(s)
    \/ \E s \in Slots : DashboardMaterials(s)
    \/ \E s \in Slots : DashboardStudents(s)
    \/ \E s \in Slots : DashboardFaculty(s)
    \/ \E s \in Slots : StatsMaterials(s)
    \/ \E s \in Slots : StatsStudents(s)
    \/ \E s \in Slots : StatsFaculty(s)
    \/ \E s \in Slots : StatsDownloads(s)

SpecGate == InitGate /\ [][NextGate]_vars

----------------------------------------------------------------------------
(* Every route, one request at a time, from the empty store *)

NextAll ==
    \/ ReceiveRegister({"A"})
    \/ ReceiveLogin({"A"})
    \/ \E s \in Slots : RegisterCheck(s)
    \/ \E s \in Slots : RegisterCreate(s)
    \/ \E s \in Slots : Login(s)
    \/ NextGate

SpecAll == InitAuth /\ [][NextAll]_vars

----------------------------------------------------------------------------
(* The catalogue in use: three materials the faculty user uploaded before, *)
(* some liked and downloaded since; requests arrive one at a time          *)

\* the document Material.create stored for an upload by the faculty user
SeedMaterial(id, title, description, subject, department, semester, type, likes, downloads) ==
    [id |-> id, title |-> title, description |-> description, subject |-> subject,
     department |-> department, semester |-> semester, type |-> type, year |-> 0,
     fileUrl |-> [name |-> "calc.pdf", stamp |-> 0], fileName |-> "calc.pdf",
     uploadedBy |-> 1, uploadedByName |-> <<"f">>,
     likes |-> likes, downloads |-> downloads, v |-> Len(likes), createdAt |-> id]

CatalogMaterials ==
    << SeedMaterial(1, <<"C", "a">>, <<>>, <<"M">>, <<"C", "S">>, 2, "notes", <<>>, 0),
       SeedMaterial(2, <<"A", "b">>, <<"p", "y">>, <<"O", "S">>, <<"C", "S">>, 3, "pyq",
                    <<2>>, 2),
       SeedMaterial(3, <<"X">>, <<>>, <<"P", "y">>, <<"E", "E">>, 3, "pyq", <<>>, 1) >>

InitCatalog ==
    /\ users = <<Faculty, Student>>
    /\ materials = CatalogMaterials
    /\ chats = <<>>
    /\ files = {[name |-> "calc.pdf", stamp |-> 0]}
    /\ nextId = 4
    /\ clock = 0
    /\ issued = {FacultyToken, StudentToken}
    /\ reqs = [s \in Slots |-> IdleReq]
    /\ started = 0
    /\ dbOk = TRUE
    /\ log = {}

\* the callers of the list, upload and aggregate routes: the faculty user and
\* the student, with their tokens; a single material is asked for, liked,
\* downloaded or deleted by them and by the newcomers as well
CatalogCreds == {FacultyToken, StudentToken}

\* the ids a client asks for: two stored materials and one that never existed
CatalogIds == {1, 2, 9}

ReceiveOnCatalog(op) ==
    \E c \in issued, id \in CatalogIds : Start("A", op, c, [id |-> id])

CatalogUploads ==
    { UploadBody(<<"N", "e", "w">>, Absent, <<"M">>, <<"E", "E">>, <<"2">>, "pyq",
                 Absent, SmallFile) }

ReceiveCatalogUpload ==
    \E c \in CatalogCreds, b \in CatalogUploads : Start("A", "upload", c, b)

\* filters alone, then page and limit alone
CatalogQueries ==
    { ListQuery(Absent, Absent, "", Absent, Absent, Absent, Absent),
      ListQuery(<<"C", "S">>, Absent, "", Absent, Absent, Absent, Absent),
      ListQuery(Absent, <<"3">>, "", Absent, Absent, Absent, Absent),
      ListQuery(<<"C", "S">>, <<"3">>, "", Absent, Absent, Absent, Absent),
      ListQuery(Absent, Absent, "pyq", Absent, Absent, Absent, Absent),
      ListQuery(Absent, Absent, "", <<"o">>, Absent, Absent, Absent),
      ListQuery(Absent, Absent, "", <<".">>, Absent, Absent, Absent),
      ListQuery(Absent, Absent, "", Absent, <<"P", "Y">>, Absent, Absent),
      ListQuery(Absent, Absent, "", Absent, <<"a">>, Absent, Absent),
      ListQuery(Absent, Absent, "", Absent, <<"(">>, Absent, Absent),
      ListQuery(<<"C", "S">>, <<"3">>, "pyq", Absent, <<"p", "y">>, Absent, Absent),
      ListQuery(<<"E", "E">>, Absent, "notes", <<"m">>, Absent, Absent, Absent),
      ListQuery(Absent, Absent, "", Absent, Absent, <<"2">>, Absent),
      ListQuery(Absent, Absent, "", Absent, Absent, <<"2">>, <<"2">>),
      ListQuery(Absent, Absent, "", Absent, Absent, <<"2">>, <<"3">>),
      ListQuery(Absent, Absent, "", Absent, Absent, <<"1">>, <<"3">>),
      ListQuery(Absent, Absent, "", Absent, Absent, Absent, <<"2">>),
      ListQuery(Absent, Absent, "pyq", Absent, Absent, <<"1">>, <<"2">>),
      ListQuery(Absent, <<"x">>, "", Absent, Absent, Absent, Absent),
      ListQuery(<<"C", "S">>, <<"x", "3">>, "pyq", Absent, Absent, Absent, Absent) }

ReceiveCatalogList ==
    \E c \in CatalogCreds, q \in CatalogQueries : Start("A", "list", c, q)

\* newcomers: one more student, one more faculty user
CatalogRegistrations ==
    { RegisterBody(<<"n">>, <<"c">>, "pw3", "student", Absent, Absent),
      RegisterBody(<<"g">>, <<"d">>, "pw3", "faculty", Absent, Absent) }

ReceiveCatalogRegister ==
    \E b \in CatalogRegistrations : Start("A", "register", NoCred, b)

NextCatalog ==
    \/ ReceiveCatalogList
    \/ ReceiveCatalogUpload
    \/ ReceiveCatalogRegister
    \/ ReceiveOnCatalog("get")
    \/ ReceiveOnCatalog("like")
    \/ ReceiveOnCatalog("download")
    \/ ReceiveOnCatalog("delete")
    \/ ReceivePlain({"A"}, CatalogCreds, "dashboard")
    \/ ReceivePlain({"A"}, CatalogCreds, "stats")
    \/ \E s \in Slots : RegisterCheck(s)
    \/ \E s \in Slots : RegisterCreate(s)
    \/ \E s \in Slots : AuthMiddleware(s)
    \/ \E s \in Slots : FacultyOnly(s)
    \/ \E s \in Slots : Multer(s)
    \/ \E s \in Slots : UploadFindUser(s)
    \/ \E s \in Slots : UploadCreate(s)
    \/ \E s \in Slots : ListMaterials(s)
    \/ \E s \in Slots : GetMaterial(s)
    \/ \E s \in Slots : LikeFind(s)
    \/ \E s \in Slots : LikeSave(s)
    \/ \E s \in Slots : DownloadFind(s)
    \/ \E s \in Slots : DownloadSave(s)
    \/ \E s \in Slots : DeleteFind(s)
    \/ \E s \in Slots : DeleteRemove(s)
    \/ \E s \in Slots : DashboardMaterials(s)
    \/ \E s \in Slots : DashboardStudents(s)
    \/ \E s \in Slots : DashboardFaculty(s)
    \/ \E s \in Slots : StatsMaterials(s)
    \/ \E s \in Slots : StatsStudents(s)
    \/ \E s \in Slots : StatsFaculty(s)
    \/ \E s \in Slots : StatsDownloads(s)

SpecCatalog == InitCatalog /\ [][NextCatalog]_vars

----------------------------------------------------------------------------
(* A large catalogue: more materials than one default page of the list     *)
(* route holds; requests arrive one at a time                              *)

SeededMaterials == 101

BulkMaterials ==
    [i \in 1..SeededMaterials |->
        SeedMaterial(i, <<"T">>, <<>>, <<"M">>, <<"C", "S">>, 1 + (i % 2),
                     IF i % 3 = 0 THEN "pyq" ELSE "notes", <<>>, i % 2)]

InitBulk ==
    /\ users = <<Faculty, Student>>
    /\ materials = BulkMaterials
    /\ chats = <<>>
    /\ files = {[name |-> "calc.pdf", stamp |-> 0]}
    /\ nextId = SeededMaterials + 1
    /\ clock = 0
    /\ issued = {FacultyToken, StudentToken}
    /\ reqs = [s \in Slots |-> IdleReq]
    /\ started = 0
    /\ dbOk = TRUE
    /\ log = {}

BulkQueries ==
    { ListQuery(Absent, Absent, "", Absent, Absent, Absent, Absent),
      ListQuery(Absent, Absent, "", Absent, Absent, Absent, <<"2">>),
      ListQuery(Absent, Absent, "", Absent, Absent, <<"5", "0">>, <<"1">>),
      ListQuery(Absent, Absent, "", Absent, Absent, <<"5", "0">>, <<"2">>),
      ListQuery(Absent, Absent, "", Absent, Absent, <<"5", "0">>, <<"3">>),
      ListQuery(Absent, Absent, "", Absent, Absent, <<"5", "0">>, <<"4">>),
      ListQuery(Absent, Absent, "pyq", Absent, Absent, <<"1", "0">>, <<"2">>),
      ListQuery(Absent, <<"2">>, "", Absent, Absent, <<"3">>, Absent) }

ReceiveBulkList ==
    \E c \in CatalogCreds, q \in BulkQueries : Start("A", "list", c, q)

\* the oldest stored material and the newest seeded one
BulkIds == {1, SeededMaterials}

ReceiveBulkDelete ==
    \E c \in CatalogCreds, id \in BulkIds : Start("A", "delete", c, [id |-> id])

NextBulk ==
    \/ ReceiveBulkList
    \/ ReceiveCatalogUpload
    \/ ReceiveBulkDelete
    \/ ReceivePlain({"A"}, CatalogCreds, "dashboard")
    \/ \E s \in Slots : AuthMiddleware(s)
    \/ \E s \in Slots : FacultyOnly(s)
    \/ \E s \in Slots : Multer(s)
    \/ \E s \in Slots : UploadFindUser(s)
    \/ \E s \in Slots : UploadCreate(s)
    \/ \E s \in Slots : ListMaterials(s)
    \/ \E s \in Slots : DeleteFind(s)
    \/ \E s \in Slots : DeleteRemove(s)
    \/ \E s \in Slots : DashboardMaterials(s)
    \/ \E s \in Slots : DashboardStudents(s)
    \/ \E s \in Slots : DashboardFaculty(s)

SpecBulk == InitBulk /\ [][NextBulk]_vars

----------------------------------------------------------------------------
(* The chatbot in use by the faculty user and the student, one request at  *)
(* a time                                                                  *)

MaxChatRequests == 2

\* messages for every keyword group, for several groups at once, for none,
\* and a request without a message
ChatMessages ==
    { [message |-> <<"P", "Y", "Q">>],
      [message |-> <<"p", "r", "e", "v", "i", "o", "u", "s", " ", "y", "e", "a", "r">>],
      [message |-> <<"q", "u", "e", "s", "t", "i", "o", "n", " ", "p", "a", "p", "e", "r">>],
      [message |-> <<"N", "o", "t", "e", "s">>],
      [message |-> <<"s", "t", "u", "d", "y", " ", "m", "a", "t", "e", "r", "i", "a", "l">>],
      [message |-> <<"s", "y", "l", "l", "a", "b", "u", "s">>],
      [message |-> <<"e", "x", "a", "m">>],
      [message |-> <<"p", "r", "e", "p", "a", "r", "a", "t", "i", "o", "n">>],
      [message |-> <<"d", "o", "w", "n", "l", "o", "a", "d">>],
      [message |-> <<"h", "o", "w", " ", "t", "o", " ", "d", "o", "w", "n", "l", "o", "a", "d">>],
      [message |-> <<"u", "p", "l", "o", "a", "d">>],
      [message |-> <<"h", "e", "l", "l", "o">>],
      [message |-> <<"h", "i">>],
      [message |-> <<"h", "e", "y">>],
      [message |-> <<"t", "h", "a", "n", "k">>],
      [message |-> <<"o", "k">>],
      [message |-> <<"u", "p", "l", "o", "a", "d", " ", "n", "o", "t", "e", "s">>],
      [message |-> <<"t", "h", "a", "n", "k", "s", " ", "f", "o", "r", " ", "t", "h", "e", " ", "p", "y", "q">>],
      [message |-> <<"t", "h", "i", "s">>],
      [message |-> <<"e", "x", "a", "m", " ", "s", "y", "l", "l", "a", "b", "u", "s">>],
      [message |-> <<"H", "e", "y", ",", " ", "h", "o", "w", " ", "t", "o", " ", "d", "o", "w", "n", "l", "o", "a", "d">>],
      [message |-> <<" ">>],
      [message |-> Absent] }

ReceiveChatMessage ==
    \E c \in CatalogCreds, b \in ChatMessages : Start("A", "chat", c, b)

NextChat ==
    \/ started < MaxChatRequests /\ ReceiveChatMessage
    \/ started < MaxChatRequests /\ ReceivePlain({"A"}, CatalogCreds, "history")
    \/ \E s \in Slots : AuthMiddleware(s)
    \/ \E s \in Slots : ChatHandler(s)
    \/ \E s \in Slots : ChatHistory(s)

SpecChat == InitMat /\ [][NextChat]_vars

----------------------------------------------------------------------------
(* A long chat history: the student has more entries than one history      *)
(* response holds                                                          *)

SeededChats == 57

\* the document Chat.create stored for the i-th exchange; every tenth was
\* the faculty user's, the others the student's
SeedChat(i) ==
    [id |-> i, userId |-> IF i % 10 = 0 THEN 1 ELSE 2, message |-> <<"h", "i">>,
     response |-> ChatResponse(<<"h", "i">>), createdAt |-> i]

InitHistory ==
    /\ users = <<Faculty, Student>>
    /\ materials = <<>>
    /\ chats = [i \in 1..SeededChats |-> SeedChat(i)]
    /\ files = {}
    /\ nextId = SeededChats + 1
    /\ clock = 0
    /\ issued = {FacultyToken, StudentToken}
    /\ reqs = [s \in Slots |-> IdleReq]
    /\ started = 0
    /\ dbOk = TRUE
    /\ log = {}

HistoryMessages == { [message |-> <<"h", "i">>], [message |-> <<"o", "k">>] }

ReceiveHistoryChat ==
    \E c \in CatalogCreds, b \in HistoryMessages : Start("A", "chat", c, b)

NextHistory ==
    \/ ReceiveHistoryChat
    \/ ReceivePlain({"A"}, CatalogCreds, "history")
    \/ \E s \in Slots : AuthMiddleware(s)
    \/ \E s \in Slots : ChatHandler(s)
    \/ \E s \in Slots : ChatHistory(s)

SpecHistory == InitHistory /\ [][NextHistory]_vars

----------------------------------------------------------------------------
(* Input the handlers have to refuse: registrations and uploads with       *)
(* missing or malformed fields, uploads without a file or with one that is *)
(* too large; one request at a time, from the empty store                  *)

BigFile == [name |-> "scan.pdf", size |-> MaxFileSize + 1]

InputUploads ==
    { UploadBody(<<"C", "a">>, Absent, <<"M">>, <<"C", "S">>, <<"2">>, "notes", Absent, SmallFile),
      UploadBody(Absent, Absent, <<"M">>, <<"C", "S">>, <<"2">>, "notes", Absent, SmallFile),
      UploadBody(<<"C", "a">>, Absent, Absent, <<"C", "S">>, <<"2">>, "notes", Absent, SmallFile),
      UploadBody(<<"C", "a">>, Absent, <<"M">>, Absent, <<"2">>, "notes", Absent, SmallFile),
      UploadBody(<<"C", "a">>, Absent, <<"M">>, <<"C", "S">>, <<"x">>, "notes", Absent, SmallFile),
      UploadBody(<<"C", "a">>, Absent, <<"M">>, <<"C", "S">>, <<"2">>, "quiz", Absent, SmallFile),
      UploadBody(<<"C", "a">>, Absent, <<"M">>, <<"C", "S">>, <<"2">>, "notes", Absent, NoFile),
      UploadBody(<<"C", "a">>, Absent, <<"M">>, <<"C", "S">>, <<"2">>, "notes", Absent, BigFile) }

ReceiveInputUpload ==
    \E c \in issued, b \in InputUploads : Start("A", "upload", c, b)

NextInput ==
    \/ ReceiveRegister({"A"})
    \/ ReceiveInputUpload
    \/ \E s \in Slots : RegisterCheck(s)
    \/ \E s \in Slots : RegisterCreate(s)
    \/ \E s \in Slots : AuthMiddleware(s)
    \/ \E s \in Slots : FacultyOnly(s)
    \/ \E s \in Slots : Multer(s)
    \/ \E s \in Slots : UploadFindUser(s)
    \/ \E s \in Slots : UploadCreate(s)

SpecInput == InitAuth /\ [][NextInput]_vars

----------------------------------------------------------------------------
(* Store outages: the connection to the database is lost and comes back    *)
(* at any moment; every route, one request at a time, from the empty store *)

\* from now on every store call rejects (MongoNetworkError, buffering timeout)
StoreFails ==
    /\ dbOk
    /\ dbOk' = FALSE
    /\ UNCHANGED <<storeVars, clock, issued, reqs, started, log>>

StoreRecovers ==
    /\ ~dbOk
    /\ dbOk' = TRUE
    /\ UNCHANGED <<storeVars, clock, issued, reqs, started, log>>

NextFault ==
    \/ NextAll
    \/ ReceiveInputUpload
    \/ StoreFails
    \/ StoreRecovers

SpecFault == InitAuth /\ [][NextFault]_vars

----------------------------------------------------------------------------
(* Properties of the credential side *)

Done(r) == r.pc = "done"

\* the request has been through authMiddleware
Gated(r) == r.op \in ProtectedOps /\ r.verifiedAt >= 0

\* C3: a token issued by Register or Login expires TokenTTL days after it was
\* issued; presented to the Access Gate at any instant before its expiry it
\* is accepted and its claims are attached; presented at or after its expiry
\* it is rejected with InvalidToken, no claims are attached and no handler
\* runs (no store call is made).
C3_TokenValidityWindow ==
    /\ \A t \in issued : t.exp = t.iat + 7
    /\ \A s \in Slots :
        LET r == reqs[s] IN
        (Gated(r) /\ r.cred \in issued) =>
            /\ r.verifiedAt < r.cred.exp =>
                  /\ r.user = Decoded(r.cred)
                  /\ Done(r) => Outcome(r.res) \notin {"InvalidToken", "Unauthenticated"}
            /\ r.verifiedAt >= r.cred.exp =>
                  /\ Done(r) /\ Outcome(r.res) = "InvalidToken"
                  /\ r.user = NoClaims /\ r.reads = 0 /\ r.writes = 0

\* C3 witness: an issued token was presented at or after its expiry and rejected
C3_Witness ==
    \E s \in Slots :
        /\ Gated(reqs[s]) /\ reqs[s].cred \in issued
        /\ reqs[s].verifiedAt >= reqs[s].cred.exp
        /\ Done(reqs[s]) /\ Outcome(reqs[s].res) = "InvalidToken"

\* C4: when a Register answered 201 for an email and password, a Login with
\* that same email and password that completes afterwards answers 200 with a
\* token whose claims carry the user id and email the Register returned and
\* the role it was given.
C4_LoginAfterRegister ==
    [][\A s, t \in Slots :
        ( /\ reqs[t].op = "register" /\ Done(reqs[t]) /\ reqs[t].res.status = 201
          /\ reqs[s].pc = "login" /\ Done(reqs'[s])
          /\ reqs[s].body.email = reqs[t].body.email
          /\ reqs[s].body.password = reqs[t].body.password )
        => LET res == reqs'[s].res IN
           /\ res.status = 200
           /\ Decoded(res.body.token).userId = reqs[t].res.body.user.id
           /\ Decoded(res.body.token).email = reqs[t].res.body.user.email
           /\ Decoded(res.body.token).role = reqs[t].body.role
           /\ res.body.token \in issued'
           /\ res.body.token.exp = clock + 7]_vars

\* C4 witness: a Login answered 200 for the email and password of a completed
\* Register whose email was stored in another form than it was typed
C4_Witness ==
    \E s, t \in Slots :
        /\ reqs[t].op = "register" /\ Done(reqs[t]) /\ reqs[t].res.status = 201
        /\ reqs[s].op = "login" /\ Done(reqs[s]) /\ reqs[s].res.status = 200
        /\ reqs[s].body.email = reqs[t].body.email
        /\ reqs[s].body.password = reqs[t].body.password
        /\ reqs[t].res.body.user.email # reqs[t].body.email

\* a User record exists whose email is the normal form of the given one
Registered(email) ==
    \E i \in DOMAIN users : users[i].email = Trim(ToLowerCase(email))

AllGiven(b) ==
    Truthy(b.name) /\ Truthy(b.email) /\ TruthyWord(b.password) /\ TruthyWord(b.role)

\* C5 as stated: once a User record exists for an email, every Register for
\* an email with the same normal form, whatever its other fields, ends with
\* DuplicateResource and creates no record (the store answering).
C5_AsStated ==
    [][\A s \in Slots :
        ( /\ reqs[s].pc = "register" /\ reqs'[s].pc # "register"
          /\ Registered(reqs[s].body.email) /\ dbOk )
        => /\ Done(reqs'[s])
           /\ Outcome(reqs'[s].res) = "DuplicateResource"
           /\ users' = users]_vars

\* C5 amended: once a User record exists for an email, every Register that
\* supplies name, email, password and role and whose email has the same
\* normal form ends with DuplicateResource (400) and creates no record; one
\* that leaves a required field out ends with ValidationError (400) and
\* creates no record either.
C5_DuplicateEmailRejected ==
    [][\A s \in Slots :
        ( /\ reqs[s].pc = "register" /\ reqs'[s].pc # "register"
          /\ Registered(reqs[s].body.email) /\ dbOk )
        => /\ Done(reqs'[s])
           /\ reqs'[s].res.status = 400
           /\ Outcome(reqs'[s].res) =
                 IF AllGiven(reqs[s].body) THEN "DuplicateResource" ELSE "ValidationError"
           /\ users' = users]_vars

\* C5 witness: a Register was refused as a duplicate although its email is
\* typed differently from the stored one
C5_Witness ==
    \E s \in Slots :
        /\ reqs[s].op = "register" /\ Done(reqs[s])
        /\ Outcome(reqs[s].res) = "DuplicateResource"
        /\ \E i \in DOMAIN users :
              /\ users[i].email = Trim(ToLowerCase(reqs[s].body.email))
              /\ users[i].email # reqs[s].body.email

\* C6: no two User records have the same lower-cased, trimmed email, under
\* every interleaving of concurrent Register requests.
C6_EmailUnique ==
    \A i, j \in DOMAIN users :
        i # j => Trim(ToLowerCase(users[i].email)) # Trim(ToLowerCase(users[j].email))

\* C6 witness: two Registers for one email both passed the existence check;
\* the first created the record and the second was stopped by the store
C6_Witness ==
    \E s \in Slots :
        /\ reqs[s].op = "register" /\ Done(reqs[s]) /\ reqs[s].res.status = 500
        /\ reqs[s].reads = 1 /\ reqs[s].writes = 1
        /\ reqs[s].body.role \in Roles
        /\ Registered(reqs[s].body.email)
        /\ "E11000 duplicate key" \in log

SummaryFields == {"id", "name", "email", "role", "department", "semester"}

\* C7: no response body of any route carries a password or a password hash:
\* the user summary of Register and Login and the body of GetSelf carry
\* exactly id, name, email, role, department and semester, the token's
\* payload is user id, role, email and the two timestamps, an error body is
\* a message alone, and no body of another route has a password field.
C7_NoPasswordOutbound ==
    \A s \in Slots :
        LET r == reqs[s]
            b == r.res.body
            ok == r.res.status \in {200, 201}
        IN  Done(r) =>
            /\ "password" \notin DOMAIN b
            /\ ~ok => (DOMAIN b = {"error"} \/ DOMAIN b = {"html"})
            /\ (ok /\ r.op \in {"register", "login"}) =>
                  /\ DOMAIN b = {"message", "token", "user"}
                  /\ DOMAIN b.user = SummaryFields
                  /\ DOMAIN Decoded(b.token) = {"userId", "role", "email", "iat", "exp"}
            /\ (ok /\ r.op = "me") => DOMAIN b = SummaryFields
            /\ (ok /\ r.op = "upload") =>
                  DOMAIN b = {"message", "material"} /\ "password" \notin DOMAIN b.material
            /\ (ok /\ r.op \in {"list", "history"}) =>
                  /\ DOMAIN b = {"items"}
                  /\ \A i \in DOMAIN b.items : "password" \notin DOMAIN b.items[i]
            /\ (ok /\ r.op = "like") => DOMAIN b = {"message", "likes", "isLiked"}
            /\ (ok /\ r.op = "download") => DOMAIN b = {"message", "downloads"}
            /\ (ok /\ r.op = "delete") => DOMAIN b = {"message"}
            /\ (ok /\ r.op = "chat") => DOMAIN b = {"response"}
            /\ (ok /\ r.op = "dashboard") => DOMAIN b = {"stats", "recentMaterials"}
            /\ (ok /\ r.op = "stats") =>
                  DOMAIN b = {"totalMaterials", "totalStudents", "totalFaculty",
                              "totalDownloads"}

\* C7 witness: GetSelf answered with the summary of a user whose record
\* holds a password hash
C7_Witness ==
    \E s \in Slots :
        /\ reqs[s].op = "me" /\ Done(reqs[s]) /\ reqs[s].res.status = 200
        /\ users[reqs[s].res.body.id].password = BcryptHash("pw1")

----------------------------------------------------------------------------
(* Properties of the resource side *)

MaterialIdsStored(seq) == {seq[i].id : i \in DOMAIN seq}

\* the request in slot s takes a step
Steps(s) == reqs'[s] # reqs[s]

\* C1: an UploadMaterial or DeleteMaterial whose verified claims have a role
\* other than faculty ends at the role stage with Forbidden (403), having made
\* no store call and written no file; and every step that adds or removes a
\* Material record is a step of an upload or delete request whose verified
\* claims have role faculty.
C1_FacultyOnlyMutation ==
    /\ [](\A s \in Slots :
            LET r == reqs[s] IN
            (r.op \in FacultyOps /\ Gated(r) /\ r.user # NoClaims
               /\ r.user.role # "faculty" /\ r.pc # "role")
            => /\ Done(r) /\ r.res.status = 403 /\ Outcome(r.res) = "Forbidden"
               /\ r.reads = 0 /\ r.writes = 0 /\ r.doc = NoDoc)
    /\ [][MaterialIdsStored(materials') # MaterialIdsStored(materials)
            => \E s \in Slots :
                 /\ Steps(s)
                 /\ reqs[s].op \in FacultyOps
                 /\ reqs[s].cred \in issued
                 /\ reqs[s].user = Decoded(reqs[s].cred)
                 /\ reqs[s].user.role = "faculty"]_vars

\* C1 witness: a student's DeleteMaterial on an existing material was refused
C1_Witness ==
    \E s \in Slots :
        /\ reqs[s].op = "delete" /\ Done(reqs[s]) /\ reqs[s].res.status = 403
        /\ reqs[s].user.role = "student"
        /\ FindMaterial(reqs[s].body.id) # NoDoc

\* C8: the likes of every Material hold each user identifier at most once,
\* whatever the interleaving of the findById and save steps of ToggleLike
\* requests.
C8_LikesUnique ==
    \A m \in DOMAIN materials :
        \A i, j \in DOMAIN materials[m].likes :
            i # j => materials[m].likes[i] # materials[m].likes[j]

\* C9: the stored downloads counter of a Material never decreases from one
\* state of the Resource Store to the next while the record exists.
C9_DownloadsNeverDecrease ==
    [][\A i \in DOMAIN materials : \A j \in DOMAIN materials' :
          materials'[j].id = materials[i].id
          => materials'[j].downloads >= materials[i].downloads]_vars

\* the number of times userId occurs in likes
Occurrences(likes, userId) == Cardinality({i \in DOMAIN likes : likes[i] = userId})

UserIds == {users[i].id : i \in DOMAIN users}

\* C10: a ToggleLike that runs with no other request between its findById
\* and its save removes the caller from likes if present and adds the caller
\* otherwise, leaves every other user's like as it was, and answers with the
\* new size of likes and the caller's membership after the change; and, on
\* every stored material, toggling twice in sequence for one user gives back
\* the likes it started from, the second toggle answering isLiked = false
\* when the user had not liked the material.
C10_ToggleLike ==
    /\ [][\A s \in Slots :
            LET r == reqs[s]
                u == r.user.userId
                before == FindMaterial(r.doc.id)
                after == FindMaterial(r.doc.id)'
                res == reqs'[s].res
            IN  ( /\ r.pc = "like_save" /\ Done(reqs'[s])
                  /\ before # NoDoc
                  /\ before.likes = r.doc.read /\ before.v = r.doc.v )
                => /\ res.status = 200
                   /\ (u \in Range(before.likes)) = (u \notin Range(after.likes))
                   /\ \A w \in UserIds \ {u} :
                         Occurrences(after.likes, w) = Occurrences(before.likes, w)
                   /\ res.body.likes = Len(after.likes)
                   /\ res.body.isLiked = (u \in Range(after.likes))]_vars
    /\ [](\A m \in DOMAIN materials : \A u \in UserIds :
            LET likes == materials[m].likes
                once == ToggleLikes(likes, u)
                twice == ToggleLikes(once, u)
            IN  /\ Len(twice) = Len(likes)
                /\ \A w \in UserIds : Occurrences(twice, w) = Occurrences(likes, w)
                /\ u \notin Range(likes) => u \notin Range(twice))

----------------------------------------------------------------------------
(* Properties of the Access Gate *)

\* the credential is a token the server issued, not yet expired when the
\* gate looked at it
Verified(r) == r.cred \in issued /\ r.verifiedAt >= 0 /\ r.verifiedAt < r.cred.exp

\* C2: on every protected route the role stage and the handler run only
\* after authMiddleware verified the credential and attached its claims; a
\* request without a bearer credential ends with Unauthenticated (401), one
\* whose credential is not a valid token (garbage, signed with another key,
\* expired) ends with InvalidToken (400), and in both cases no claims are
\* attached, no store call is made and no store changes.
C2_GateBeforeHandlers ==
    /\ [](\A s \in Slots :
            LET r == reqs[s] IN
            r.op \in ProtectedOps =>
                /\ (r.pc \notin {"auth", "done"} \/ r.reads + r.writes > 0
                      \/ r.doc # NoDoc \/ r.user # NoClaims)
                   => (Verified(r) /\ r.user = Decoded(r.cred))
                /\ (Done(r) /\ r.cred = NoCred)
                   => ( /\ r.res.status = 401 /\ Outcome(r.res) = "Unauthenticated"
                        /\ r.user = NoClaims /\ r.reads = 0 /\ r.writes = 0 )
                /\ (Done(r) /\ r.cred # NoCred /\ ~Verified(r))
                   => ( /\ r.res.status = 400 /\ Outcome(r.res) = "InvalidToken"
                        /\ r.user = NoClaims /\ r.reads = 0 /\ r.writes = 0 ))
    /\ [][\A s \in Slots :
            (Steps(s) /\ reqs[s].pc = "auth" /\ Done(reqs'[s]))
            => UNCHANGED <<storeVars, issued, log>>]_vars
    /\ [][storeVars' # storeVars
            => \E s \in Slots : Steps(s) /\ Verified(reqs[s])
                                 /\ reqs[s].user = Decoded(reqs[s].cred)]_vars

\* C2 witness: a DeleteMaterial on an existing material carrying a token with
\* role faculty signed with another key was turned away by the gate
C2_Witness ==
    \E s \in Slots :
        /\ reqs[s].op = "delete" /\ Done(reqs[s])
        /\ reqs[s].cred.kind = "jwt" /\ reqs[s].cred.role = "faculty"
        /\ reqs[s].cred \notin issued
        /\ Outcome(reqs[s].res) = "InvalidToken"
        /\ FindMaterial(reqs[s].body.id) # NoDoc


----------------------------------------------------------------------------
(* Properties of the catalogue in use *)

\* the downloads counter of material id in collection seq, -1 when absent
DownloadsOf(seq, id) ==
    IF \E i \in DOMAIN seq : seq[i].id = id
    THEN seq[CHOOSE i \in DOMAIN seq : seq[i].id = id].downloads
    ELSE 0 - 1

\* the documents of collection seq other than id
Others(seq, id) == {seq[i] : i \in {j \in DOMAIN seq : seq[j].id # id}}

\* request s completes RecordDownload in this step
CompletesDownload(s) ==
    reqs[s].op = "download" /\ reqs[s].pc \in {"download", "download_save"}
    /\ reqs'[s].pc = "done"

\* C11: when requests do not overlap, every RecordDownload on an existing
\* material, whoever the authenticated caller is, succeeds, raises the stored
\* counter by exactly 1 and reports the raised value, and changes no other
\* material; so N of them in a row raise it by exactly N and the k-th reports
\* the starting value plus k.
C11_SequentialDownloads ==
    [][\A s \in Slots :
         (CompletesDownload(s) /\ FindMaterial(reqs[s].body.id) # NoDoc) =>
            LET id == reqs[s].body.id
                before == DownloadsOf(materials, id)
            IN  /\ reqs'[s].res.status = 200
                /\ DownloadsOf(materials', id) = before + 1
                /\ reqs'[s].res.body.downloads = before + 1
                /\ Others(materials', id) = Others(materials, id)
                /\ Len(materials') = Len(materials)]_vars

\* C11 witness: the third RecordDownload in a row on material 1, whose
\* counter started at 0, has answered 3
C11_Witness ==
    /\ reqs["A"].op = "download" /\ Done(reqs["A"])
    /\ reqs["A"].body.id = 1
    /\ reqs["A"].res.status = 200
    /\ reqs["A"].res.body.downloads = 3
    /\ DownloadsOf(materials, 1) = 3

\* C12: RecordDownload is an unguarded read-modify-write: the save of a
\* request on a material that is still stored always succeeds and sets the
\* counter to the value that request read plus 1, whatever the counter holds
\* by then, so the last writer wins and an update made in between is lost.
C12_LostUpdate ==
    [][\A s \in Slots :
         (reqs[s].pc = "download_save" /\ reqs'[s].pc = "done"
          /\ FindMaterial(reqs[s].doc.id) # NoDoc) =>
            /\ reqs'[s].res.status = 200
            /\ reqs'[s].res.body.downloads = reqs[s].doc.read + 1
            /\ DownloadsOf(materials', reqs[s].doc.id) = reqs[s].doc.read + 1]_vars

\* C12 witness: two RecordDownload requests on one material both read the
\* same counter value, both answered 200, and the stored counter is that
\* value plus 1
C12_Witness ==
    /\ \A s \in Slots : /\ reqs[s].op = "download" /\ Done(reqs[s])
                         /\ reqs[s].res.status = 200
    /\ reqs["A"].body.id = reqs["B"].body.id
    /\ reqs["A"].doc.read = reqs["B"].doc.read
    /\ DownloadsOf(materials, reqs["A"].body.id) = reqs["A"].doc.read + 1

\* the ids of the documents of collection seq
IdsOf(seq) == {seq[i].id : i \in DOMAIN seq}

ContainsI(value, text) == Includes(ToLowerCase(value), ToLowerCase(text))

\* material m satisfies every filter supplied in q
Satisfies(m, q) ==
    /\ q.department # Absent => m.department = q.department
    /\ q.semester # Absent => m.semester = ParseInt(q.semester)
    /\ q.type # "" => m.type = q.type
    /\ q.subject # Absent => ContainsI(m.subject, q.subject)
    /\ q.search # Absent =>
          \/ ContainsI(m.title, q.search)
          \/ ContainsI(m.description, q.search)
          \/ ContainsI(m.subject, q.search)

\* a list request answered in full: no page, no limit
ListedInFull(r) ==
    /\ r.op = "list" /\ Done(r) /\ r.res.status = 200
    /\ r.body.page = Absent /\ r.body.limit = Absent

\* C14: an answered ListMaterials returns exactly the stored materials that
\* satisfy every supplied filter (department equal, semester equal as an
\* integer, type equal, subject containing the text, search contained in
\* title, description or subject, letter case ignored), each once.
C14_FiltersExact ==
    \A s \in Slots :
        ListedInFull(reqs[s]) =>
            LET items == reqs[s].res.body.items
            IN  /\ IdsOf(items) = {m.id : m \in {x \in Range(materials) :
                                                   Satisfies(x, reqs[s].body)}}
                /\ Cardinality(IdsOf(items)) = Len(items)

\* the stored materials the query built from q selects
Matching(q) == {m \in Range(materials) : MatchesQuery(m, q)}

\* how many of them were created after m
NewerCount(m, q) == Cardinality({x \in Matching(q) : x.createdAt > m.createdAt})

\* the page and the limit a list request asks for, with the stated defaults
PageOf(r) == IF r.body.page = Absent THEN 1 ELSE ParseInt(r.body.page)

LimitOf(r) == IF r.body.limit = Absent THEN 100 ELSE ParseInt(r.body.limit)

\* C15: an answered ListMaterials with page p >= 1 and limit l >= 1 (page 1
\* and limit 100 when omitted) returns, newest first, exactly the matches at
\* positions (p-1)*l+1 .. p*l of the matches ordered by creation time
\* descending: its k-th element is the match with (p-1)*l + k - 1 newer matches,
\* and every match with that many newer ones for some k in 1..l is returned.
\* Hence the pages 1, 2, ... of one limit put together are the full ordered
\* result, nothing twice and nothing left out.
C15_OrderedPages ==
    \A s \in Slots :
        LET r == reqs[s] IN
        (r.op = "list" /\ Done(r) /\ r.res.status = 200
         /\ PageOf(r) >= 1 /\ LimitOf(r) >= 1) =>
            LET items == r.res.body.items
                lo == (PageOf(r) - 1) * LimitOf(r)
            IN  /\ \A k \in DOMAIN items :
                      /\ items[k] \in Matching(r.body)
                      /\ NewerCount(items[k], r.body) = lo + k - 1
                /\ Len(items) = Cardinality({m \in Matching(r.body) :
                                     /\ NewerCount(m, r.body) >= lo
                                     /\ NewerCount(m, r.body) < lo + LimitOf(r)})

\* C15 witness: a list request without page and limit on a store of more
\* than 100 materials was answered with the 100 newest, newest first
C15_Witness ==
    LET r == reqs["A"] IN
    /\ r.op = "list" /\ Done(r) /\ r.res.status = 200
    /\ r.body = ListQuery(Absent, Absent, "", Absent, Absent, Absent, Absent)
    /\ Len(materials) > 100
    /\ Len(r.res.body.items) = 100
    /\ \A m \in Range(materials) : m.createdAt <= r.res.body.items[1].createdAt

\* the summary of material m that Dashboard lists
RecentEntry(m) ==
    [id |-> m.id, title |-> m.title, subject |-> m.subject, type |-> m.type,
     createdAt |-> m.createdAt]

\* C16: an answered Dashboard lists as recentMaterials the five most recently
\* created stored materials (all of them when there are fewer than five),
\* each as identifier, title, subject, type and creation time.
C16_RecentFive ==
    \A s \in Slots :
        LET r == reqs[s] IN
        (r.op = "dashboard" /\ Done(r) /\ r.res.status = 200) =>
            Range(r.res.body.recentMaterials) =
                {RecentEntry(m) : m \in {x \in Range(materials) :
                    Cardinality({y \in Range(materials) :
                                    y.createdAt > x.createdAt}) < 5}}

\* the sum of the downloads counters, as the number of counted downloads
TotalDownloads ==
    Cardinality(UNION {{<<i, k>> : k \in 1..materials[i].downloads} :
                          i \in DOMAIN materials})

\* the values an aggregate of the current stores has
AggregatesCurrent(stats) ==
    /\ stats.totalMaterials = Len(materials)
    /\ stats.totalDownloads = TotalDownloads
    /\ stats.totalStudents = Cardinality({i \in DOMAIN users : users[i].role = "student"})
    /\ stats.totalFaculty = Cardinality({i \in DOMAIN users : users[i].role = "faculty"})

\* C17: with no mutation interleaved, an answered Dashboard or Stats reports
\* the number of Material records, the sum of their downloads counters, the
\* numbers of student and of faculty users of the current stores (Dashboard
\* also the number of materials of type pyq), and no step of either
\* operation changes a store.
C17_AggregatesCurrent ==
    /\ [](\A s \in Slots :
            LET r == reqs[s] IN
            /\ (r.op = "stats" /\ Done(r) /\ r.res.status = 200) =>
                  AggregatesCurrent(r.res.body)
            /\ (r.op = "dashboard" /\ Done(r) /\ r.res.status = 200) =>
                  /\ AggregatesCurrent(r.res.body.stats)
                  /\ r.res.body.stats.totalPYQs =
                        Cardinality({i \in DOMAIN materials : materials[i].type = "pyq"}))
    /\ [][\A s \in Slots :
            (reqs[s].op \in {"dashboard", "stats"} /\ ~Free(s)
             /\ reqs'[s] # reqs[s]) => UNCHANGED storeVars]_vars

\* C17 witness: Dashboard answered after a second student registered and
\* with pyq materials and counted downloads in the store
C17_Witness ==
    LET r == reqs["A"] IN
    /\ r.op = "dashboard" /\ Done(r) /\ r.res.status = 200
    /\ r.res.body.stats.totalStudents = 2
    /\ r.res.body.stats.totalPYQs >= 1
    /\ r.res.body.stats.totalDownloads >= 1
    /\ Len(users) = 3

----------------------------------------------------------------------------
(* Properties of the chatbot *)

\* keyword group i has a keyword that occurs in the lower-cased message
Hit(i, message) ==
    \E k \in KeywordGroups[i].keywords : Includes(ToLowerCase(message), k)

\* the response of the first group, in the fixed order, that the message
\* hits, the menu when it hits none
Expected(message) ==
    IF \E i \in DOMAIN KeywordGroups : Hit(i, message)
    THEN KeywordGroups[CHOOSE i \in DOMAIN KeywordGroups :
                          Hit(i, message) /\ \A j \in 1..(i - 1) : ~Hit(j, message)].response
    ELSE MenuResponse

\* the groups in the order PYQ, notes, syllabus, exam/preparation, download,
\* upload, greeting, thanks
GroupOrder ==
    /\ Len(KeywordGroups) = 8
    /\ <<"p", "y", "q">> \in KeywordGroups[1].keywords
    /\ <<"n", "o", "t", "e", "s">> \in KeywordGroups[2].keywords
    /\ <<"s", "y", "l", "l", "a", "b", "u", "s">> \in KeywordGroups[3].keywords
    /\ {<<"e", "x", "a", "m">>, <<"p", "r", "e", "p", "a", "r", "a", "t", "i", "o", "n">>} \subseteq KeywordGroups[4].keywords
    /\ <<"d", "o", "w", "n", "l", "o", "a", "d">> \in KeywordGroups[5].keywords
    /\ <<"u", "p", "l", "o", "a", "d">> \in KeywordGroups[6].keywords
    /\ <<"h", "e", "l", "l", "o">> \in KeywordGroups[7].keywords
    /\ <<"t", "h", "a", "n", "k">> \in KeywordGroups[8].keywords

\* C18: the response of an answered Chat is a function of the message alone:
\* the canned response of the first keyword group, in the order PYQ, notes,
\* syllabus, exam/preparation, download, upload, greeting, thanks, one of
\* whose keywords is a substring of the lower-cased message, and the menu
\* response when there is none, whoever the caller is and whatever the chat
\* store holds.
C18_ChatDeterministic ==
    /\ GroupOrder
    /\ \A s \in Slots :
          LET r == reqs[s] IN
          (r.op = "chat" /\ Done(r) /\ r.res.status = 200) =>
              r.res.body.response = Expected(r.body.message)

\* C18 witness: the student has been answered with the notes response to
\* "upload notes", a message of two groups, after an earlier exchange of
\* the faculty user
C18_Witness ==
    LET r == reqs["A"] IN
    /\ r.op = "chat" /\ Done(r) /\ r.res.status = 200
    /\ r.body.message = <<"u", "p", "l", "o", "a", "d", " ", "n", "o", "t", "e", "s">>
    /\ r.res.body.response = KeywordGroups[2].response
    /\ r.user.userId = 2
    /\ Len(chats) = 2 /\ chats[1].userId = 1

\* request s leaves the chat handler in this step
CompletesChat(s) == reqs[s].pc = "chat" /\ reqs'[s].pc = "done"

\* the step adds to the chat store exactly one entry, the exchange of s
AddsEntryOf(s) ==
    /\ Len(chats') = Len(chats) + 1
    /\ chats'[Len(chats')].userId = reqs[s].user.userId
    /\ chats'[Len(chats')].message = reqs[s].body.message
    /\ reqs'[s].res.status = 200
    /\ chats'[Len(chats')].response = reqs'[s].res.body.response

\* the step leaves every stored entry as it is
KeepsEntries == \A i \in DOMAIN chats : i \in DOMAIN chats' /\ chats'[i] = chats[i]

\* C19 as stated: every Chat request of an authenticated caller adds exactly
\* one ChatEntry with the caller's id, the message and the returned response,
\* and no step modifies or deletes a stored entry.
C19_AsStated ==
    [][/\ KeepsEntries
       /\ \A s \in Slots : CompletesChat(s) => AddsEntryOf(s)]_vars

\* C19: every Chat request of an authenticated caller that carries a
\* non-empty message adds exactly one ChatEntry with the caller's id, the
\* message and the returned response; one without a message is answered 400
\* and adds nothing; entries are added by Chat requests only, and no step
\* modifies or deletes a stored entry.
C19_ChatPersisted ==
    [][/\ KeepsEntries
       /\ chats' # chats => \E s \in Slots : CompletesChat(s)
       /\ \A s \in Slots :
            CompletesChat(s) =>
                /\ reqs[s].verifiedAt >= 0
                /\ IF reqs[s].body.message # Absent
                   THEN AddsEntryOf(s)
                   ELSE /\ chats' = chats
                        /\ reqs'[s].res.status = 400
                        /\ Outcome(reqs'[s].res) = "ValidationError"]_vars

\* C19 witness: the Chat request of a caller who registered before has been
\* answered and its exchange is the one stored entry
C19_Witness ==
    LET r == reqs["A"] IN
    /\ r.op = "chat" /\ Done(r) /\ r.res.status = 200
    /\ Len(chats) = 1
    /\ chats[1].userId = r.user.userId
    /\ chats[1].message = r.body.message
    /\ chats[1].response = r.res.body.response
    /\ started >= 2

\* the stored entries of user userId
EntriesOf(userId) == {c \in Range(chats) : c.userId = userId}

\* C20: an answered ChatHistory returns at most 50 entries: the caller's
\* entries, newest first, the k-th being the caller's entry with k - 1 newer
\* ones; all of them when the caller has 50 or fewer, the 50 newest otherwise.
C20_HistoryNewestFifty ==
    \A s \in Slots :
        LET r == reqs[s] IN
        (r.op = "history" /\ Done(r) /\ r.res.status = 200) =>
            LET items == r.res.body.items
                mine == EntriesOf(r.user.userId)
            IN  /\ Len(items) <= 50
                /\ Len(items) = IF Cardinality(mine) < 50 THEN Cardinality(mine) ELSE 50
                /\ \A k \in DOMAIN items :
                      /\ items[k] \in mine
                      /\ Cardinality({x \in mine : x.createdAt > items[k].createdAt}) = k - 1

\* C20 witness: the student, who has more than 50 entries, was answered with
\* 50 of them, the newest one first
C20_Witness ==
    LET r == reqs["A"] IN
    /\ r.op = "history" /\ Done(r) /\ r.res.status = 200
    /\ r.user.userId = 2
    /\ Cardinality(EntriesOf(2)) > 50
    /\ Len(r.res.body.items) = 50
    /\ \A c \in EntriesOf(2) : c.createdAt <= r.res.body.items[1].createdAt

----------------------------------------------------------------------------
(* Properties of error handling *)

\* the text is a number
Numeric(str) == str # <<>> /\ \A i \in DOMAIN str : str[i] \in Digits

\* a Register body with a required field absent or a role outside the enum
MalformedRegister(b) == ~AllGiven(b) \/ b.role \notin {"student", "faculty"}

\* upload metadata with a required field absent, a non-numeric semester or a
\* type outside the enum
MalformedUpload(b) ==
    \/ b.title = Absent \/ b.subject = Absent \/ b.department = Absent
    \/ ~Numeric(b.semester)
    \/ b.type \notin {"notes", "pyq", "syllabus", "reference"}

\* the request reached the route's handler chain with a faculty identity
ByFaculty(r) == "role" \in DOMAIN r.user /\ r.user.role = "faculty"

\* C21: a Register with a required field absent or a role outside {student,
\* faculty}, and an UploadMaterial by a faculty identity with a missing title,
\* subject or department, a non-numeric semester or a type outside the enum,
\* is answered with a 4xx status, never a 5xx, and no step of such a request
\* changes the user or material store.
C21_ValidationIs4xx ==
    /\ [](\A s \in Slots :
            LET r == reqs[s] IN
            /\ (r.op = "register" /\ Done(r) /\ MalformedRegister(r.body)) =>
                  r.res.status \in 400..499
            /\ (r.op = "upload" /\ Done(r) /\ ByFaculty(r) /\ MalformedUpload(r.body)) =>
                  r.res.status \in 400..499)
    /\ [][\A s \in Slots :
            (Steps(s) /\ ~Free(s)
             /\ \/ reqs[s].op = "register" /\ MalformedRegister(reqs[s].body)
                \/ reqs[s].op = "upload" /\ MalformedUpload(reqs[s].body))
            => UNCHANGED <<users, materials>>]_vars

\* the outcome classes a boundary operation may end with (a refused login is
\* a 400 with a message, reported like a validation error)
Outcomes ==
    {"Success", "ValidationError", "BadCredentials", "DuplicateResource",
     "Unauthenticated", "InvalidToken", "Forbidden", "NotFound",
     "InternalFailure"}

\* C22 (the part that can fail in one state): the one response of a request
\* belongs to one of the outcome classes, and a failure is answered by the
\* operation itself, as the JSON object { error: message }: no failure of a
\* store call, the token check, the role check or the upload stage goes past
\* the operation's own handling.
C22_NothingEscapes ==
    \A s \in Slots :
        LET r == reqs[s] IN
        Done(r) =>
            /\ Outcome(r.res) \in Outcomes
            /\ r.res.status >= 400 => DOMAIN r.res.body = {"error"}

\* an upload without a file, or with a file above the maximum payload size
NoPayload(b) == b.file = NoFile

Oversized(b) == b.file # NoFile /\ b.file.size > MaxFileSize

\* C23: an UploadMaterial by a faculty identity without a file ends with 400,
\* one with a file above the maximum size ends rejected (never 2xx), and no
\* step of either creates a Material or changes the user or chat store.
C23_RejectedBeforeStore ==
    /\ [](\A s \in Slots :
            LET r == reqs[s] IN
            (r.op = "upload" /\ Done(r) /\ ByFaculty(r)) =>
                /\ NoPayload(r.body) =>
                      r.res = [status |-> 400, body |-> [error |-> "No file uploaded"]]
                /\ Oversized(r.body) => r.res.status >= 400)
    /\ [][\A s \in Slots :
            (Steps(s) /\ reqs[s].op = "upload"
                /\ (NoPayload(reqs[s].body) \/ Oversized(reqs[s].body))) =>
                UNCHANGED <<users, materials, chats, nextId>>]_vars

\* a faculty upload of an oversized file has been rejected, nothing stored
C23_Witness ==
    \E s \in Slots :
        LET r == reqs[s] IN
        /\ r.op = "upload" /\ Done(r) /\ ByFaculty(r)
        /\ Oversized(r.body)
        /\ r.res.status >= 400
        /\ materials = <<>>

\* a faculty upload without a file has been answered 400, nothing stored
C23_WitnessNoFile ==
    \E s \in Slots :
        LET r == reqs[s] IN
        /\ r.op = "upload" /\ Done(r) /\ ByFaculty(r)
        /\ NoPayload(r.body)
        /\ r.res.status = 400
        /\ materials = <<>>

\* the messages the errors of failing store calls carry
ErrorDetails ==
    {StoreError, "Material validation failed", "Cast to Number failed",
     "Regular expression is invalid", "No matching document found",
     "No document found for query", "Cast to ObjectId failed"}

\* C24: whenever an operation, whichever it is, answers 500 because a store
\* call failed, the message in the response is a fixed generic text: it is
\* never the message of the underlying error.
C24_GenericFailure ==
    \A s \in Slots :
        LET r == reqs[s] IN
        (Done(r) /\ r.res.status = 500 /\ "error" \in DOMAIN r.res.body) =>
            r.res.body.error \notin ErrorDetails

\* what the claim says of Register and Login alone: their 500 carries the
\* route's fixed text and the error's message is in the server log
C24_RegisterLoginGeneric ==
    \A s \in Slots :
        LET r == reqs[s] IN
        (Done(r) /\ r.res.status = 500 /\ r.op \in {"register", "login"}) =>
            /\ r.res.body.error \in {"Registration failed. Please try again.",
                                     "Server error during login"}
            /\ log # {}

\* a semester filter was given and does not parse as an integer
NonIntegerSemester(q) == q.semester # Absent /\ ParseInt(q.semester) = NaN

\* C25: a ListMaterials request of an authenticated caller whose semester
\* filter does not parse as an integer is answered 200 with the materials the
\* same request without the semester filter returns.
C25_SemesterIgnored ==
    \A s \in Slots :
        LET r == reqs[s]
            q == [r.body EXCEPT !.semester = Absent]
        IN
        (r.op = "list" /\ Done(r) /\ r.verifiedAt >= 0 /\ r.res.status \notin {400, 401}
         /\ NonIntegerSemester(r.body)) =>
            /\ r.res.status = 200
            /\ r.res.body.items =
                  Page(SortByCreatedDesc(SelectSeq2(materials, q)),
                       ParseIntOr(q.page, 1), ParseIntOr(q.limit, DefaultLimit))

\* request r carries the claims of a verified token
Authenticated(r) == "role" \in DOMAIN r.user

\* the step answers the request in slot s
Answers(s) == ~Done(reqs[s]) /\ Done(reqs'[s])

\* C26: no operation on a material asks who uploaded it. The answer to a
\* DeleteMaterial of a faculty identity, and to a ToggleLike or a
\* RecordDownload of any authenticated identity, on a material that is
\* stored is 200, whoever uploaded the material.
C26_OwnershipFree ==
    [][\A s \in Slots :
        LET r == reqs[s] IN
        (Answers(s) /\ Authenticated(r)
         /\ \/ r.op \in {"like", "download"}
            \/ r.op = "delete" /\ r.user.role = "faculty"
         /\ r.body.id \in IdsOf(materials)) =>
            reqs'[s].res.status = 200]_vars

\* a faculty user who registered later has deleted a material of the
\* catalogue, all of them uploaded by the first faculty user
C26_Witness ==
    \E s \in Slots :
        LET r == reqs[s] IN
        /\ r.op = "delete" /\ Done(r) /\ r.res.status = 200
        /\ r.user.role = "faculty"
        /\ \E m \in Range(CatalogMaterials) :
              /\ m.id = r.body.id
              /\ m.uploadedBy # r.user.userId
        /\ r.body.id \notin IdsOf(materials)

\* a student has liked, and downloaded, a material the faculty user uploaded
C26_WitnessLike ==
    \E s \in Slots :
        LET r == reqs[s] IN
        /\ r.op \in {"like", "download"} /\ Done(r) /\ r.res.status = 200
        /\ r.user.role = "student"
        /\ \E m \in Range(materials) :
              m.id = r.body.id /\ m.uploadedBy # r.user.userId

\* the one answer to a refused login
LoginRefusal == [status |-> 400, body |-> [error |-> "Invalid email or password"]]

\* both credentials were supplied
Supplied(b) == Truthy(b.email) /\ TruthyWord(b.password)

\* no user has the email of login body b
Unregistered(b) == FindUserByEmail(NormalizeEmail(b.email)) = NoUser

\* a user has the email of login body b, with another password
WrongPassword(b) ==
    LET user == FindUserByEmail(NormalizeEmail(b.email))
    IN  user # NoUser /\ user.password # BcryptHash(b.password)

\* C27: a Login with an email no user has and a Login with a registered email
\* and a wrong password get the same answer, status 400 with the message
\* "Invalid email or password", and neither changes the store or issues a
\* token.
C27_LoginIndistinguishable ==
    [][\A s \in Slots :
        LET r == reqs[s] IN
        (Answers(s) /\ r.op = "login" /\ Supplied(r.body) /\ dbOk
         /\ (Unregistered(r.body) \/ WrongPassword(r.body))) =>
            /\ reqs'[s].res = LoginRefusal
            /\ UNCHANGED <<storeVars, issued>>]_vars

\* one login refused for an email nobody registered, another for a wrong
\* password, with equal responses
C27_Witness ==
    \E s, t \in Slots :
        /\ reqs[s].op = "login" /\ Done(reqs[s]) /\ Unregistered(reqs[s].body)
        /\ reqs[t].op = "login" /\ Done(reqs[t]) /\ WrongPassword(reqs[t].body)
        /\ Supplied(reqs[s].body) /\ Supplied(reqs[t].body)
        /\ reqs[s].res = reqs[t].res
        /\ reqs[s].res = LoginRefusal

\* the stages of an upload after the token check, after the role check and
\* after the file was stored
PastToken == {"role", "multer", "upload", "upload_create"}

PastRole == {"multer", "upload", "upload_create"}

\* C28: an upload goes through the token check, the role check, the storing
\* of the file and the creation of the record in this order. A request is
\* past the token check only with verified claims and past the role check
\* only with the faculty role; a file is written only by the file stage of
\* such a request, so a request that fails the token or the role check writes
\* none; a Material is created only by the last stage of a request whose file
\* is stored, so every Material's file is in the file store.
C28_UploadStages ==
    /\ [](\A s \in Slots :
            LET r == reqs[s] IN
            r.op = "upload" =>
                /\ r.pc \in PastToken => Authenticated(r) /\ r.verifiedAt >= 0
                /\ r.pc \in PastRole => r.user.role = "faculty"
                /\ r.pc = "upload_create" => r.doc.file \in files)
    /\ [](\A i \in DOMAIN materials : materials[i].fileUrl \in files)
    /\ [][\A s \in Slots :
            LET r == reqs[s] IN
            /\ (Steps(s) /\ files' # files) =>
                  /\ r.op = "upload" /\ r.pc = "multer"
                  /\ Authenticated(r) /\ r.user.role = "faculty"
            /\ (Steps(s) /\ Len(materials') > Len(materials)) =>
                  /\ r.op = "upload" /\ r.pc = "upload_create"
                  /\ r.doc.file \in files
                  /\ materials' = Append(materials, reqs'[s].res.body.material)
                  /\ reqs'[s].res.body.material.fileUrl = r.doc.file]_vars

\* a student's upload was refused by the role check with no file written,
\* after a faculty upload stored its file and created its record
C28_Witness ==
    /\ \E s \in Slots :
          LET r == reqs[s] IN
          /\ r.op = "upload" /\ Done(r) /\ r.res.status = 403
          /\ r.body.file # NoFile
    /\ Len(materials) = 1
    /\ files = {materials[1].fileUrl}

\* the ids given to documents so far
GivenIds == 1..(nextId - 1)

\* the step is the save() of a like or download whose material is gone
LateSave(s) ==
    /\ Steps(s)
    /\ reqs[s].pc \in {"like_save", "download_save"}
    /\ reqs[s].doc.id \notin IdsOf(materials)

\* C29: a material that was deleted never comes back: an id that is no
\* longer stored is not stored after any step, in particular not after the
\* save() of a ToggleLike or RecordDownload that read the material before it
\* was deleted; that save() changes nothing and the request ends with an
\* error.
C29_NoResurrection ==
    /\ [][\A id \in GivenIds :
            id \notin IdsOf(materials) => id \notin IdsOf(materials')]_vars
    /\ [][\A s \in Slots :
            LateSave(s) =>
                /\ UNCHANGED materials
                /\ Done(reqs'[s])
                /\ reqs'[s].res.status >= 400]_vars

\* a delete was answered 200 and the like or download of the same material,
\* which had read it before, was answered with an error by its save()
C29_Witness ==
    \E s, t \in Slots :
        /\ reqs[s].op = "delete" /\ Done(reqs[s]) /\ reqs[s].res.status = 200
        /\ reqs[t].op \in {"like", "download"} /\ Done(reqs[t])
        /\ reqs[t].body.id = reqs[s].body.id
        /\ reqs[t].reads = 1 /\ reqs[t].writes = 1
        /\ reqs[t].res.status = 500
        /\ reqs[t].body.id \notin IdsOf(materials)
        /\ reqs[t].body.id \in GivenIds

\* the entries Chat.find({ userId }) selects in the current state, of which
\* ChatHistory answers the newest
FoundFor(userId) == OfUser(chats, userId)

\* C30: an answered ChatHistory holds only entries whose userId is the
\* caller's, all of them stored, and a Chat request of user B leaves the
\* entries ChatHistory selects for every other user A as they were, hence
\* its answer to A as well.
C30_HistoryIsolated ==
    /\ [](\A s \in Slots :
            LET r == reqs[s] IN
            (r.op = "history" /\ Done(r) /\ r.res.status = 200) =>
                \A k \in DOMAIN r.res.body.items :
                    /\ r.res.body.items[k].userId = r.user.userId
                    /\ r.res.body.items[k] \in EntriesOf(r.user.userId))
    /\ [][\A s \in Slots :
            CompletesChat(s) =>
                \A a \in UserIds \ {reqs[s].user.userId} :
                    /\ FoundFor(a)' = FoundFor(a)
                    /\ \A k \in DOMAIN FoundFor(a) : FoundFor(a)[k].userId = a]_vars

\* the faculty user was answered with the five entries of their own after
\* the student's Chat request added an entry
C30_Witness ==
    \E s \in Slots :
        LET r == reqs[s] IN
        /\ r.op = "history" /\ Done(r) /\ r.res.status = 200
        /\ r.user.userId = 1
        /\ Len(r.res.body.items) = 5
        /\ Len(chats) > SeededChats
        /\ chats[Len(chats)].userId = 2

====
